---- MODULE Spec2Model ----
(***************************************************************************)
(* MaTTE (multi-tenant transactional email): the dispatch pipeline         *)
(* sendEmail of the email controller, with the log store (email_logs),     *)
(* the transport (nodemailer sendMail), the retry loop and the webhook     *)
(* notifier.  One action is one synchronous segment of the async handler:  *)
(* it starts when the awaited promise settles and runs to the next await.  *)
(* Template mode and legacy mode share the segments from BEGIN on, as the  *)
(* two branches of sendEmail repeat the same statements.  Every            *)
(* client.query may reject, and res.json may throw; getNodemailer,         *)
(* createTransport and decrypt are taken to return.  The request fields    *)
(* from, replyTo, cc, bcc, variables, attachments, textBody and overrides  *)
(* only shape the message handed to the transport and are left out.        *)
(* The template handlers createTemplate, updateTemplate and deleteTemplate *)
(* of the template controller run as concurrent processes over the table   *)
(* tenant_templates and the render cache; they are checked under           *)
(* TemplateSpec, next to a dispatch that resolves and renders a template,  *)
(* and under QuotaSpec for a tenant at the limit of its templates; the     *)
(* renderer and its cache (node-cache, with its TTL) under RenderSpec and, *)
(* for the text of a render, under PlainTextSpec; concurrent dispatches    *)
(* that share the client pool under PoolSpec; one dispatch next to one     *)
(* template handler call, each on all its paths, under ClientSpec; renders *)
(* of the stored rows next to a handler call under CacheSpec; and          *)
(* listTemplates next to a handler call under ListSpec; the dispatch       *)
(* pipeline as a whole under Spec.                                         *)
(***************************************************************************)
EXTENDS Integers, Sequences, FiniteSets, TLC

(***************************************************************************)
(* Bounds of the model.                                                    *)
(***************************************************************************)
\* number of sendEmail requests served one after the other
MaxRequests == 1
\* largest value given to RETRY_MAX_ATTEMPTS in the environment
MaxCeiling == 2
\* number of template handler calls (createTemplate, updateTemplate,
\* deleteTemplate), each running as a process of its own
MaxAdminCalls == 2
\* number of clock steps of one TTL each
MaxClock == 2
\* number of clients of the pool
PoolMax == 2

(***************************************************************************)
(* Values.                                                                 *)
(***************************************************************************)
\* parseInt of a string that is not a number
NaN == -1

\* a field the request does not carry
Undefined == -2

\* JavaScript truthiness of a number: if (version)
Truthy(n) == n \notin {Undefined, NaN, 0}

\* the literal defaults of the retry configuration
DefaultMaxAttempts == "3"
DefaultBaseDelay == "500"

\* the numbers environment strings can denote in this model
Numerals == (0..MaxCeiling) \cup {3, 100, 500}

\* parseInt(s, 10)
ParseInt(s) ==
  IF \E n \in Numerals : ToString(n) = s
  THEN CHOOSE n \in Numerals : ToString(n) = s
  ELSE NaN

\* Number(x) for a string: the number it denotes, NaN otherwise
NumberOf(s) ==
  IF \E n \in 400..599 : ToString(n) = s
  THEN CHOOSE n \in 400..599 : ToString(n) = s
  ELSE NaN

\* JavaScript a || b on strings: the empty (or missing) string is falsy
OrElse(a, b) == IF a # "" THEN a ELSE b

\* Math.pow(2, n)
RECURSIVE Pow2(_)
Pow2(n) == IF n <= 0 THEN 1 ELSE 2 * Pow2(n - 1)

\* process.env of the server process
EnvMaxAttempts == {"", "abc"} \cup {ToString(n) : n \in 0..MaxCeiling}
EnvBaseDelay == {"", "100"}
EnvDefaultWebhook == {"", "https://default.hook"}

\* the error values of the model: an Error object with its code,
\* responseCode and message; at is the transport attempt that raised it
NoError == [name |-> "null", code |-> "", responseCode |-> 0, message |-> "", at |-> 0]

AppError(msg, status) ==
  [name |-> "AppError", code |-> "", responseCode |-> status, message |-> msg, at |-> 0]

\* rejection of client.query(sql)
DbError(op) ==
  [name |-> "DatabaseError", code |-> "", responseCode |-> 0, message |-> op, at |-> 0]

\* reading info.messageId when info is null
TypeError ==
  [name |-> "TypeError", code |-> "", responseCode |-> 0,
   message |-> "Cannot read properties of null", at |-> 0]

\* res.json throwing
ResponseError ==
  [name |-> "Error", code |-> "ERR_HTTP_HEADERS_SENT", responseCode |-> 0,
   message |-> "Cannot set headers", at |-> 0]

\* what transporter.sendMail can reject with
TransportCodes == {"ETIMEDOUT", "ESOCKET", "ECONNRESET", "EAI_AGAIN", "EAUTH", "421"}
ResponseCodes == {421, 450, 451, 452, 550}

TransportError(c, r, m, k) ==
  [name |-> "Error", code |-> c, responseCode |-> r, message |-> m, at |-> k]

\* network-level errors carry a code, SMTP replies a responseCode; the last
\* two are a reply that also carries a network code and an error without
\* code or message
TransportErrors ==
  {TransportError(c, 0, c, 0) : c \in TransportCodes}
  \cup {TransportError("EMESSAGE", r, "smtp reply", 0) : r \in ResponseCodes}
  \cup {TransportError("ETIMEDOUT", 550, "timeout after reply", 0),
        TransportError("", 0, "", 0)}

\* the error object transport attempt k rejects with
RaisedAt(e, k) == [e EXCEPT !.at = k]

\* the info object of a successful sendMail, its messageId being the number
\* of the call that returned it; NoInfo is null
NoInfo == [messageId |-> 0]
Info(k) == [messageId |-> k]

(***************************************************************************)
(* Requests.                                                               *)
(***************************************************************************)
NoTenant == [id |-> 0, webhook_url |-> ""]
Tenants ==
  {[id |-> 1, webhook_url |-> "https://t1.hook"],
   [id |-> 2, webhook_url |-> ""]}

\* req.body: "" is a missing field, version Undefined a missing version
NoData == <<>>
\* templateData as the character codes of JSON.stringify(data), here of {}
Data1 == <<123, 125>>

Body(slug, data, to, subject, html) ==
  [templateSlug |-> slug, templateId |-> "", templateData |-> data, to |-> to,
   subject |-> subject, htmlBody |-> html, version |-> Undefined]

Bodies ==
  { Body("", NoData, "a@x", "Hello", "<p>{{n}}</p>"),
    Body("", NoData, "a@x", "Hello", ""),
    Body("welcome", Data1, "a@x", "", ""),
    Body("welcome", Data1, "a@x", "Hello", "<p>{{n}}</p>"),
    [Body("welcome", Data1, "a@x", "", "") EXCEPT !.version = 1],
    Body("welcome", NoData, "a@x", "", ""),
    Body("missing", Data1, "a@x", "", ""),
    [Body("", Data1, "a@x", "", "") EXCEPT !.templateId = "1"] }

(***************************************************************************)
(* Template store, resolver and renderer.                                  *)
(***************************************************************************)
\* a Handlebars source that does not compile
Malformed == {"{{#if"}

TemplateRow(id, tenant, slug, version, active, content) ==
  [id |-> id, tenant_id |-> tenant, name |-> "Welcome", slug |-> slug,
   engine |-> "handlebars", content |-> content,
   subject_template |-> "Hi {{n}}", plaintext_template |-> "",
   version |-> version, is_active |-> active]

NoTemplate == TemplateRow(0, 0, "", 0, FALSE, "")

\* the rows of tenant_templates the dispatches run against
InitialTemplates ==
  { TemplateRow(1, 1, "welcome", 1, TRUE, "<h1>{{n}}</h1>"),
    TemplateRow(2, 1, "welcome", 2, TRUE, "{{#if"),
    TemplateRow(3, 2, "welcome", 1, TRUE, "<h1>{{n}}</h1>"),
    TemplateRow(4, 2, "welcome", 2, FALSE, "<h2>{{n}}</h2>") }

\* the row with the highest version of a set of rows, null for no row
\* (ORDER BY version DESC LIMIT 1)
Latest(match) ==
  IF match = {} THEN NoTemplate
  ELSE CHOOSE r \in match : \A q \in match : q.version <= r.version

\* the resolver without the tenant_id condition of its WHERE clause
resolveTemplate_anyTenant(rows, tenantId, slug, version) ==
  Latest({r \in rows : /\ r.slug = slug
                       /\ r.is_active
                       /\ (Truthy(version) => r.version = version)})

\* SELECT * FROM tenant_templates WHERE tenant_id = $1 AND slug = $2 AND
\* is_active = true [AND version = $3] ORDER BY version DESC LIMIT 1, the
\* version condition being added under if (version)
resolveTemplate(rows, tenantId, slug, version) ==
  Latest({r \in rows : /\ r.tenant_id = tenantId
                       /\ r.slug = slug
                       /\ r.is_active
                       /\ (Truthy(version) => r.version = version)})

\* generateDataHash keeps hash as a 32-bit integer; it is held here as the
\* two 16-bit halves <<hi, lo>> of its two's complement bits.
\* One loop step, hash = ((hash << 5) - hash) + char; hash = hash & hash,
\* is 31 * hash + char modulo 2^32
HashStep(h, char) ==
  LET lo == 31 * h[2] + char
  IN <<(31 * h[1] + (lo \div 65536)) % 65536, lo % 65536>>

RECURSIVE HashFrom(_, _, _)
HashFrom(dataStr, i, hash) ==
  IF i > Len(dataStr) THEN hash
  ELSE HashFrom(dataStr, i + 1, HashStep(hash, dataStr[i]))

\* Math.abs(hash): the halves of the magnitude of the signed value
AbsInt32(h) ==
  IF h[1] < 32768 THEN h
  ELSE <<(65535 - h[1]) + (IF h[2] = 0 THEN 1 ELSE 0), (65536 - h[2]) % 65536>>

\* the digits of base 36
Digit36 ==
  << "0", "1", "2", "3", "4", "5", "6", "7", "8", "9", "a", "b", "c", "d", "e",
     "f", "g", "h", "i", "j", "k", "l", "m", "n", "o", "p", "q", "r", "s", "t",
     "u", "v", "w", "x", "y", "z" >>

\* toString(36) of the number with the halves h: its base-36 digits, the
\* division by 36 done half by half
RECURSIVE Base36(_)
Base36(h) ==
  LET mid == (h[1] % 36) * 65536 + h[2]
      q == <<h[1] \div 36, mid \div 36>>
  IN IF q = <<0, 0>> THEN <<Digit36[(mid % 36) + 1]>>
     ELSE Base36(q) \o <<Digit36[(mid % 36) + 1]>>

\* generateDataHash over the characters of JSON.stringify(data): the
\* characters of Math.abs(hash).toString(36)
generateDataHash(dataStr) == Base36(AbsInt32(HashFrom(dataStr, 1, <<0, 0>>)))

\* String(n) of a non-negative integer, one character each
RECURSIVE Digits(_)
Digits(n) ==
  IF n < 10 THEN <<Digit36[n + 1]>> ELSE Digits(n \div 10) \o <<Digit36[(n % 10) + 1]>>

\* `template_${templateId}_v${version}_${dataHash}`: the characters of the
\* key, the literal template_ held as one
getCacheKey(templateId, version, dataHash) ==
  <<"template_">> \o Digits(templateId) \o <<"_", "v">> \o Digits(version)
    \o <<"_">> \o dataHash

\* Handlebars.compile(template)(data): the expansion, as the pair it is
\* computed from
Expand(template, data) == <<template, data>>

\* the uncached part of TemplateRenderer.renderTemplate: ok is FALSE when a
\* compile step throws
RenderUncached(record, data) ==
  IF record.subject_template \in Malformed \/ record.content \in Malformed
  THEN [ok |-> FALSE, subject |-> <<>>, html |-> <<>>, text |-> <<>>]
  ELSE [ok |-> TRUE,
        subject |-> Expand(record.subject_template, data),
        html |-> Expand(record.content, data),
        text |-> IF record.plaintext_template # ""
                    /\ record.plaintext_template \notin Malformed
                 THEN Expand(record.plaintext_template, data)
                 ELSE <<"htmlToText", Expand(record.content, data)>>]

\* the compile steps of a render that misses the cache, in order, up to the
\* one that throws
CompileSteps(record) ==
  IF record.subject_template \in Malformed THEN <<"subject">>
  ELSE IF record.content \in Malformed THEN <<"subject", "body">>
  ELSE <<"subject", "body">>
       \o (IF record.engine = "mjml" THEN <<"mjml">> ELSE <<>>)
       \o <<"inlineCss", "sanitizeHtml", "plainText">>

\* new NodeCache({stdTTL: 3600, checkperiod: 120}), in seconds
StdTTL == 3600
CheckPeriod == 120

\* a cache whose entries never expire
Expired_never(entry, time) == FALSE

\* node-cache holds with every entry the time t = now + stdTTL at which it
\* expires, and takes it for expired when t < now
Expired(entry, time) == entry.t < time

\* cache.get of a key that is absent or expired: undefined
Miss == [ok |-> FALSE, subject |-> <<>>, html |-> <<>>, text |-> <<>>]

\* cache.get(key): the value of an entry that has not expired
CacheGet(c, key, time) ==
  IF key \in DOMAIN c /\ ~Expired(c[key], time) THEN c[key].v ELSE Miss

\* cache.del(keys)
CacheDel(c, keys) == [k \in DOMAIN c \ keys |-> c[k]]

\* the cache after cache.get(key): an entry found expired is deleted
CacheAfterGet(c, key, time) ==
  IF key \in DOMAIN c /\ Expired(c[key], time) THEN CacheDel(c, {key}) ELSE c

\* a cache that stores nothing
CacheSet_noop(c, key, value, time) == c

\* cache.set(key, value)
CacheSet(c, key, value, time) ==
  [k \in DOMAIN c \cup {key} |->
     IF k = key THEN [v |-> value, t |-> time + StdTTL] ELSE c[k]]

\* the periodic check of node-cache: the expired entries are deleted
CacheCheck(c, time) == CacheDel(c, {k \in DOMAIN c : Expired(c[k], time)})

\* the cache key of a render: version || templateRecord.version with no
\* version passed
CacheKeyOf(record, data) ==
  getCacheKey(record.id, record.version, generateDataHash(data))

\* TemplateRenderer.renderTemplate from cache.get(cacheKey) on: the cached
\* entry on a hit, the fresh render otherwise
RenderKeyed(c, key, record, data, time) ==
  LET cached == CacheGet(c, key, time)
  IN IF cached.ok THEN cached ELSE RenderUncached(record, data)

\* the cache after that: cache.set(cacheKey, result) on a successful miss
CacheAfterRenderKeyed(c, key, record, data, time) ==
  LET r == RenderUncached(record, data)
  IN IF CacheGet(c, key, time).ok \/ ~r.ok THEN CacheAfterGet(c, key, time)
     ELSE CacheSet(CacheAfterGet(c, key, time), key, r, time)

\* TemplateRenderer.renderTemplate(templateRecord, data)
renderTemplate(c, record, data, time) ==
  RenderKeyed(c, CacheKeyOf(record, data), record, data, time)

\* the cache after that call
CacheAfterRender(c, record, data, time) ==
  CacheAfterRenderKeyed(c, CacheKeyOf(record, data), record, data, time)

(***************************************************************************)
(* Retry policy of sendEmail.                                              *)
(***************************************************************************)
\* parseInt(process.env.RETRY_MAX_ATTEMPTS || '3', 10)
MaxAttemptsOf(e) == ParseInt(OrElse(e.RETRY_MAX_ATTEMPTS, DefaultMaxAttempts))

\* parseInt(process.env.RETRY_BASE_DELAY_MS || '500', 10)
BaseDelayOf(e) == ParseInt(OrElse(e.RETRY_BASE_DELAY_MS, DefaultBaseDelay))

\* the SMTP response code shouldRetry reads: err.responseCode || err.code
ResponseCodeOf(err) ==
  IF err.responseCode # 0 THEN err.responseCode ELSE NumberOf(err.code)

TransientCodes == {"ETIMEDOUT", "ESOCKET", "ECONNRESET", "EAI_AGAIN"}
TransientResponses == {421, 450, 451, 452}

\* shouldRetry with every failure taken as transient
shouldRetry_any(err) == TRUE

shouldRetry(err) ==
  \/ err.code \in TransientCodes
  \/ ResponseCodeOf(err) \in TransientResponses

\* the loop condition running one attempt past the ceiling
LoopCond_offByOne(att, max) == max # NaN /\ att <= max + 1

\* the loop condition attempt <= maxAttempts (false against NaN)
LoopCond(att, max) == max # NaN /\ att <= max

\* attempt >= maxAttempts (false against NaN)
LastAttempt(att, max) == max # NaN /\ att >= max

\* the backoff with the exponent one too high
BackoffDelay_attempt(base, att) == base * Pow2(att)

\* baseDelay * Math.pow(2, attempt - 1)
BackoffDelay(base, att) == base * Pow2(att - 1)

\* tenant.webhook_url || process.env.TENANT_DEFAULT_WEBHOOK
WebhookUrl(t, e) == OrElse(t.webhook_url, e.TENANT_DEFAULT_WEBHOOK)

(***************************************************************************)
(* State.                                                                  *)
(***************************************************************************)
VARIABLES
  env,              \* process.env: RETRY_MAX_ATTEMPTS, RETRY_BASE_DELAY_MS, TENANT_DEFAULT_WEBHOOK
  tenant_templates, \* the rows of table tenant_templates
  cache,            \* the render cache: cache key -> render result
  email_logs,       \* committed rows of table email_logs: id -> row
  email_logs_seq,   \* next value of the bigserial of email_logs
  txn,              \* the transaction of the client: open, and its uncommitted rows
  pool,             \* clients checked out of the pool
  pc,               \* the await sendEmail is suspended at
  req,              \* req.body and req.tenant
  templateRecord,   \* local templateRecord
  renderedContent,  \* local renderedContent
  logId,            \* local logId (0 is null)
  maxAttempts,      \* local maxAttempts
  baseDelay,        \* local baseDelay
  attempt,          \* loop variable attempt
  lastError,        \* local lastError
  info,             \* local info
  error,            \* the error caught by the catch block
  calls,            \* transporter.sendMail calls made by this dispatch
  sleeps,           \* the delays this dispatch has slept, in order
  statusLog,        \* the statuses this dispatch has written to its row, in order
  outcome,          \* what the caller was given: res.json, next(error), or a rejection
  webhooks,         \* the events passed to sendWebhook, in order
  pendingWebhooks,  \* indexes of webhooks whose promise has not settled
  lastSettle,       \* how the last sendWebhook promise settled
  faults,           \* log-store and response faults this dispatch has met
  served,           \* requests received so far
  tenant_templates_seq, \* next value of the bigserial of tenant_templates
  admin,            \* the template handler calls: process -> its request, position and locals
  now,              \* Date.now(), in seconds since the server started
  lastRender,       \* the last call RenderCall made of renderTemplate, and what it did
  invalidated,      \* InvalidateCall has run since that call
  dispatches,       \* concurrent sendEmail calls: process -> the await it is at, and its attempt
  listing           \* the listTemplates call: its request, the await it is at, its response

clock == <<now, lastRender, invalidated, listing>>
conf == <<env, tenant_templates, tenant_templates_seq, admin, clock, dispatches>>
db == <<email_logs, email_logs_seq, txn>>
retry == <<maxAttempts, baseDelay, attempt, lastError, info, calls, sleeps>>
hooks == <<webhooks, pendingWebhooks, lastSettle>>
vars == <<env, tenant_templates, cache, email_logs, email_logs_seq, txn, pool, pc,
          req, templateRecord, renderedContent, logId, maxAttempts, baseDelay,
          attempt, lastError, info, error, calls, sleeps, statusLog, outcome,
          webhooks, pendingWebhooks, lastSettle, faults, served,
          tenant_templates_seq, admin, now, lastRender, invalidated, dispatches,
          listing>>

\* the state of the dispatches
send == <<email_logs, email_logs_seq, txn, pc, req, templateRecord, renderedContent,
          logId, maxAttempts, baseDelay, attempt, lastError, info, error, calls,
          sleeps, statusLog, outcome, webhooks, pendingWebhooks, lastSettle,
          faults, served, dispatches>>

\* req.body and req.params of a template handler call: "" is a field the
\* request does not carry
AdminRequest(op, id, tenant, slug, content, subject, active) ==
  [op |-> op, id |-> id, tenantId |-> tenant, name |-> IF op = "create" THEN "Promo" ELSE "",
   slug |-> slug, engine |-> IF op = "create" THEN "handlebars" ELSE "",
   content |-> content, subjectTemplate |-> subject, plaintextTemplate |-> "",
   isActive |-> active]

NoAdminRequest == AdminRequest("none", 0, 0, "", "", "", "")

AdminRequests ==
  { AdminRequest("create", 0, 1, "promo", "<p>{{n}}</p>", "Promo {{n}}", ""),
    AdminRequest("create", 0, 1, "welcome", "<p>{{n}}</p>", "Hi {{n}}", ""),
    AdminRequest("update", 1, 0, "", "<h3>{{n}}</h3>", "", ""),
    AdminRequest("update", 3, 0, "", "<h3>{{n}}</h3>", "", ""),
    AdminRequest("update", 1, 0, "", "", "Yo {{n}}", ""),
    AdminRequest("update", 2, 0, "", "<h4>{{n}}</h4>", "", "false"),
    AdminRequest("update", 1, 0, "", "", "", "false"),
    AdminRequest("delete", 2, 0, "", "", "", "") }

\* the processes that run one template handler call each
AdminProcs == 1..MaxAdminCalls

NoRows == [i \in {} |-> 0]
NoTxn == [open |-> FALSE, rows |-> NoRows]
NoOutcome == [kind |-> "none", messageId |-> 0, error |-> NoError]
NoContent == [subject |-> <<>>, html |-> <<>>, text |-> <<>>, rendered |-> FALSE]
NoRequest == [body |-> Body("", NoData, "", "", ""), tenant |-> NoTenant]

\* a template handler call that has not started: rows are the rows its
\* open transaction has inserted
IdleAdmin ==
  [pc |-> "idle", req |-> NoAdminRequest, currentTemplate |-> NoTemplate,
   nextVersion |-> 0, open |-> FALSE, rows |-> {}, error |-> NoError,
   outcome |-> NoOutcome]

\* a row of email_logs (to_address and subject are not modelled)
LogRow(tenant, status) ==
  [tenant_id |-> tenant, status |-> status, error_message |-> "", sent_at |-> FALSE]

\* f with key k set to v
Put(f, k, v) == [x \in DOMAIN f \cup {k} |-> IF x = k THEN v ELSE f[x]]

\* the state after the server has started, procs being the processes that
\* are to run a template handler call
\* no call of renderTemplate yet
NoRender ==
  [record |-> NoTemplate, data |-> NoData, found |-> FALSE, stale |-> FALSE,
   hit |-> FALSE, steps |-> <<>>, result |-> Miss, expires |-> 0,
   repeat |-> FALSE, same |-> FALSE]

\* no call of listTemplates yet
NoListing ==
  [pc |-> "idle", tenantId |-> 0, page |-> 0, limit |-> 0, total |-> 0,
   pages |-> 0, data |-> <<>>, listed |-> 0]

\* a concurrent sendEmail call that has not been made
IdleDispatch == [pc |-> "idle", attempt |-> 0]

StartAll(procs, rows, senders) ==
  /\ dispatches = [d \in senders |-> IdleDispatch]
  /\ env \in [RETRY_MAX_ATTEMPTS : EnvMaxAttempts,
               RETRY_BASE_DELAY_MS : EnvBaseDelay,
               TENANT_DEFAULT_WEBHOOK : EnvDefaultWebhook]
  /\ tenant_templates = rows
  /\ cache = NoRows
  /\ email_logs = NoRows
  /\ email_logs_seq = 1
  /\ txn = NoTxn
  /\ pool = 0
  /\ pc = "idle"
  /\ req = NoRequest
  /\ templateRecord = NoTemplate
  /\ renderedContent = NoContent
  /\ logId = 0
  /\ maxAttempts = 0
  /\ baseDelay = 0
  /\ attempt = 0
  /\ lastError = NoError
  /\ info = NoInfo
  /\ error = NoError
  /\ calls = 0
  /\ sleeps = <<>>
  /\ statusLog = <<>>
  /\ outcome = NoOutcome
  /\ webhooks = <<>>
  /\ pendingWebhooks = {}
  /\ lastSettle = "none"
  /\ faults = {}
  /\ served = 0
  /\ tenant_templates_seq = Cardinality(rows) + 1
  /\ admin = [p \in procs |-> IdleAdmin]
  /\ now = 0
  /\ lastRender = NoRender
  /\ invalidated = FALSE
  /\ listing = NoListing

\* the state at the start with no concurrent sendEmail calls
StartFrom(procs, rows) == StartAll(procs, rows, {})

\* the state at the start over the rows the dispatches run against
Start(procs) == StartFrom(procs, InitialTemplates)

\* the dispatches alone: no template handler is called
Init == Start({})

(***************************************************************************)
(* sendEmail: helpers shared by its segments.                              *)
(***************************************************************************)
\* const isTemplateMode = Boolean(body.templateSlug)
isTemplateMode(body) == body.templateSlug # ""

\* the validation of the request before anything is written: the AppError
\* thrown, NoError when the request passes
ValidationError(r) ==
  IF isTemplateMode(r.body)
  THEN IF r.body.templateSlug = "" \/ r.body.templateData = NoData \/ r.body.to = ""
       THEN AppError("Missing required fields for template mode", 400)
       ELSE IF r.tenant = NoTenant THEN AppError("Tenant not found", 401)
       ELSE NoError
  ELSE IF r.body.to = "" \/ r.body.subject = "" \/ r.body.htmlBody = ""
       THEN AppError("Missing required fields", 400)
       ELSE IF r.tenant = NoTenant THEN AppError("Tenant not found", 401)
       ELSE NoError

\* the legacy renderTemplate(input, vars) of raw content
LegacyRender(input) == IF input = "" THEN <<>> ELSE <<input, "variables">>

\* renderEmailContent('template', body, templateRecord, templateData)
renderEmailContent(c, body, record, time) ==
  LET r == renderTemplate(c, record, body.templateData, time)
  IN IF r.ok
     THEN [subject |-> r.subject, html |-> r.html, text |-> r.text, rendered |-> TRUE]
     ELSE [subject |-> <<OrElse(body.subject, "Email")>>,
           html |-> LegacyRender(body.htmlBody),
           text |-> <<>>,
           rendered |-> FALSE]

\* a throw inside the try block: the catch block starts and awaits ROLLBACK
Throw(e) ==
  /\ error' = e
  /\ pc' = "rollback"

\* a finally block that keeps the client
Finally_noRelease(o) ==
  /\ outcome' = o
  /\ pool' = pool
  /\ pc' = "done"

\* the finally block after the caller was given o: client.release()
Finally(o) ==
  /\ outcome' = o
  /\ pool' = pool - 1
  /\ pc' = "done"

\* sendWebhook(webhookUrl, payload): the event is handed to the notifier and
\* its promise is pending
SendWebhook(event, id) ==
  /\ webhooks' = Append(webhooks, [event |-> event, tenantId |-> req.tenant.id,
                                   emailLogId |-> id])
  /\ pendingWebhooks' = pendingWebhooks \cup {Len(webhooks) + 1}
  /\ lastSettle' = lastSettle

\* if (!info && lastError) throw lastError; otherwise the UPDATE to 'sent'
\* is awaited
AfterLoop(i, e) ==
  IF i = NoInfo /\ e # NoError THEN Throw(e)
  ELSE /\ pc' = "updateSent"
       /\ error' = error

\* the head of the for loop: the next sendMail call when attempt <= maxAttempts
LoopHead(att, max, i, e) ==
  IF LoopCond(att, max)
  THEN /\ calls' = calls + 1
       /\ pc' = "sendMail"
       /\ error' = error
  ELSE /\ calls' = calls
       /\ AfterLoop(i, e)

(***************************************************************************)
(* sendEmail: one action per segment between two awaits.                   *)
(***************************************************************************)
\* a request arrives: sendEmail starts and awaits pool.connect()
sendEmail(b, t) ==
  /\ pc \in {"idle", "done"}
  /\ served < MaxRequests
  /\ served' = served + 1
  /\ req' = [body |-> b, tenant |-> t]
  /\ pc' = "connect"
  /\ templateRecord' = NoTemplate
  /\ renderedContent' = NoContent
  /\ logId' = 0
  /\ maxAttempts' = 0
  /\ baseDelay' = 0
  /\ attempt' = 0
  /\ lastError' = NoError
  /\ info' = NoInfo
  /\ error' = NoError
  /\ calls' = 0
  /\ sleeps' = <<>>
  /\ statusLog' = <<>>
  /\ outcome' = NoOutcome
  /\ faults' = {}
  /\ UNCHANGED <<conf, cache, db, pool, hooks>>

\* the client is acquired; mode selection and validation
AfterConnect ==
  /\ pc = "connect"
  /\ pool' = pool + 1
  /\ LET e == ValidationError(req)
     IN IF e # NoError THEN Throw(e)
        ELSE /\ pc' = IF isTemplateMode(req.body) THEN "resolve" ELSE "begin"
             /\ error' = error
  /\ UNCHANGED <<conf, cache, db, req, templateRecord, renderedContent, logId,
                 retry, statusLog, outcome, hooks, faults, served>>

\* resolveTemplate returns (template mode)
AfterResolve(ok) ==
  /\ pc = "resolve"
  /\ LET rec == resolveTemplate(tenant_templates, req.tenant.id,
                                req.body.templateSlug, req.body.version)
     IN IF ~ok
        THEN /\ Throw(DbError("SELECT"))
             /\ faults' = faults \cup {"SELECT"}
             /\ templateRecord' = templateRecord
        ELSE IF rec = NoTemplate
        THEN /\ Throw(AppError("Template not found", 404))
             /\ UNCHANGED <<faults, templateRecord>>
        ELSE /\ templateRecord' = rec
             /\ pc' = "render"
             /\ UNCHANGED <<faults, error>>
  /\ UNCHANGED <<conf, cache, db, pool, req, renderedContent, logId, retry,
                 statusLog, outcome, hooks, served>>

\* renderEmailContent returns (template mode); BEGIN is awaited
AfterRender ==
  /\ pc = "render"
  /\ renderedContent' = renderEmailContent(cache, req.body, templateRecord, now)
  /\ cache' = CacheAfterRender(cache, templateRecord, req.body.templateData, now)
  /\ pc' = "begin"
  /\ UNCHANGED <<conf, db, pool, req, templateRecord, logId, retry, error,
                 statusLog, outcome, hooks, faults, served>>

\* client.query('BEGIN') returns; the INSERT is awaited
AfterBegin(ok) ==
  /\ pc = "begin"
  /\ IF ok
     THEN /\ txn' = [open |-> TRUE, rows |-> NoRows]
          /\ pc' = "insert"
          /\ UNCHANGED <<error, faults>>
     ELSE /\ Throw(DbError("BEGIN"))
          /\ faults' = faults \cup {"BEGIN"}
          /\ txn' = txn
  /\ UNCHANGED <<conf, cache, email_logs, email_logs_seq, pool, req,
                 templateRecord, renderedContent, logId, retry, statusLog,
                 outcome, hooks, served>>

\* a handler that enters the retry loop whether or not the INSERT succeeded
AfterInsert_unchecked(ok) ==
  /\ pc = "insert"
  /\ maxAttempts' = MaxAttemptsOf(env)
  /\ baseDelay' = BaseDelayOf(env)
  /\ attempt' = 1
  /\ LoopHead(1, MaxAttemptsOf(env), info, lastError)
  /\ IF ok
     THEN /\ txn' = [txn EXCEPT !.rows = Put(@, email_logs_seq,
                                             LogRow(req.tenant.id, "sending"))]
          /\ email_logs_seq' = email_logs_seq + 1
          /\ logId' = email_logs_seq
          /\ statusLog' = Append(statusLog, "sending")
          /\ faults' = faults
     ELSE /\ faults' = faults \cup {"INSERT"}
          /\ UNCHANGED <<txn, email_logs_seq, logId, statusLog>>
  /\ UNCHANGED <<conf, cache, email_logs, pool, req, templateRecord,
                 renderedContent, lastError, info, sleeps, outcome, hooks, served>>

\* INSERT INTO email_logs ... 'sending' RETURNING id returns; the transporter
\* is made, the retry configuration is read and the loop is entered
AfterInsert(ok) ==
  /\ pc = "insert"
  /\ IF ok
     THEN /\ txn' = [txn EXCEPT !.rows = Put(@, email_logs_seq,
                                             LogRow(req.tenant.id, "sending"))]
          /\ email_logs_seq' = email_logs_seq + 1
          /\ logId' = email_logs_seq
          /\ statusLog' = Append(statusLog, "sending")
          /\ maxAttempts' = MaxAttemptsOf(env)
          /\ baseDelay' = BaseDelayOf(env)
          /\ attempt' = 1
          /\ LoopHead(1, MaxAttemptsOf(env), info, lastError)
          /\ faults' = faults
     ELSE /\ Throw(DbError("INSERT"))
          /\ faults' = faults \cup {"INSERT"}
          /\ UNCHANGED <<txn, email_logs_seq, logId, statusLog, maxAttempts,
                         baseDelay, attempt, calls>>
  /\ UNCHANGED <<conf, cache, email_logs, pool, req, templateRecord,
                 renderedContent, lastError, info, sleeps, outcome, hooks, served>>

\* transporter.sendMail resolves: info is set, the loop is left
SendMailOk ==
  /\ pc = "sendMail"
  /\ info' = Info(calls)
  /\ lastError' = NoError
  /\ AfterLoop(Info(calls), NoError)
  /\ UNCHANGED <<conf, cache, db, pool, req, templateRecord, renderedContent,
                 logId, maxAttempts, baseDelay, attempt, calls, sleeps,
                 statusLog, outcome, hooks, faults, served>>

\* transporter.sendMail rejects with err: the loop is left on the last
\* attempt or a failure that is not to be retried, else the backoff starts
SendMailFail(e) ==
  /\ pc = "sendMail"
  /\ lastError' = RaisedAt(e, attempt)
  /\ IF LastAttempt(attempt, maxAttempts) \/ ~shouldRetry(RaisedAt(e, attempt))
     THEN /\ AfterLoop(info, RaisedAt(e, attempt))
          /\ sleeps' = sleeps
     ELSE /\ sleeps' = Append(sleeps, BackoffDelay(baseDelay, attempt))
          /\ pc' = "sleep"
          /\ error' = error
  /\ UNCHANGED <<conf, cache, db, pool, req, templateRecord, renderedContent,
                 logId, maxAttempts, baseDelay, attempt, info, calls,
                 statusLog, outcome, hooks, faults, served>>

\* the backoff timer fires: attempt++ and the loop head
AfterSleep ==
  /\ pc = "sleep"
  /\ attempt' = attempt + 1
  /\ LoopHead(attempt + 1, maxAttempts, info, lastError)
  /\ UNCHANGED <<conf, cache, db, pool, req, templateRecord, renderedContent,
                 logId, maxAttempts, baseDelay, lastError, info, sleeps,
                 statusLog, outcome, hooks, faults, served>>

\* UPDATE email_logs SET status = 'sent' returns; COMMIT is awaited
AfterUpdateSent(ok) ==
  /\ pc = "updateSent"
  /\ IF ok
     THEN /\ txn' = [txn EXCEPT !.rows[logId].status = "sent",
                                !.rows[logId].sent_at = TRUE]
          /\ statusLog' = Append(statusLog, "sent")
          /\ pc' = "commit"
          /\ UNCHANGED <<error, faults>>
     ELSE /\ Throw(DbError("UPDATE sent"))
          /\ faults' = faults \cup {"UPDATE sent"}
          /\ UNCHANGED <<txn, statusLog>>
  /\ UNCHANGED <<conf, cache, email_logs, email_logs_seq, pool, req,
                 templateRecord, renderedContent, logId, retry, outcome, hooks,
                 served>>

\* the table after COMMIT: the rows of the transaction are written
Committed(table, t) ==
  [i \in DOMAIN table \cup DOMAIN t.rows |->
     IF i \in DOMAIN t.rows THEN t.rows[i] ELSE table[i]]

\* the response of the success path
SuccessResponse(i) == [kind |-> "json", messageId |-> i.messageId, error |-> NoError]

\* COMMIT returns; info.messageId is logged, the 'sent' webhook is fired and
\* res.json writes the response (resOk: res.json does not throw)
AfterCommit(ok, resOk) ==
  /\ pc = "commit"
  /\ IF ~ok
     THEN /\ Throw(DbError("COMMIT"))
          /\ faults' = faults \cup {"COMMIT"}
          /\ UNCHANGED <<email_logs, txn, hooks, outcome, pool>>
     ELSE /\ email_logs' = Committed(email_logs, txn)
          /\ txn' = NoTxn
          /\ IF info = NoInfo
             THEN /\ Throw(TypeError)
                  /\ UNCHANGED <<hooks, outcome, pool, faults>>
             ELSE /\ IF WebhookUrl(req.tenant, env) # ""
                     THEN SendWebhook("sent", logId)
                     ELSE UNCHANGED hooks
                  /\ IF resOk
                     THEN /\ Finally(SuccessResponse(info))
                          /\ UNCHANGED <<error, faults>>
                     ELSE /\ Throw(ResponseError)
                          /\ faults' = faults \cup {"res.json"}
                          /\ UNCHANGED <<outcome, pool>>
  /\ UNCHANGED <<conf, cache, email_logs_seq, req, templateRecord,
                 renderedContent, logId, retry, statusLog, served>>

\* the end of the catch block: the 'failed' webhook when there is a URL and
\* a logId, then next(error) and the finally block
CatchTail ==
  /\ IF WebhookUrl(req.tenant, env) # "" /\ logId # 0
     THEN SendWebhook("failed", logId)
     ELSE UNCHANGED hooks
  /\ Finally([kind |-> "next", messageId |-> 0, error |-> error])

\* client.query('ROLLBACK') of the catch block returns.  It is not inside a
\* try: its rejection leaves the catch block, only the finally block runs
\* and the promise of sendEmail rejects.  A ROLLBACK rejects when the
\* connection is lost, and the server then aborts the transaction: the
\* uncommitted rows are gone either way
AfterRollback(ok) ==
  /\ pc = "rollback"
  /\ txn' = NoTxn
  /\ IF ~ok
     THEN /\ Finally([kind |-> "rejected", messageId |-> 0,
                      error |-> DbError("ROLLBACK")])
          /\ faults' = faults \cup {"ROLLBACK"}
          /\ UNCHANGED hooks
     ELSE /\ faults' = faults
          /\ IF logId # 0
             THEN /\ pc' = "updateFailed"
                  /\ UNCHANGED <<outcome, pool, hooks>>
             ELSE CatchTail
  /\ UNCHANGED <<conf, cache, email_logs, email_logs_seq, req, templateRecord,
                 renderedContent, logId, retry, error, statusLog, served>>

\* UPDATE email_logs SET status = 'failed', error_message = $2 WHERE id = $3,
\* outside any transaction: it changes the committed row when there is one
MarkFailed(table, id, e) ==
  IF id \in DOMAIN table
  THEN [table EXCEPT ![id].status = "failed",
                     ![id].error_message = OrElse(e.message, "Unknown error")]
  ELSE table

\* the UPDATE to 'failed' returns; its rejection is logged and dropped
AfterUpdateFailed(ok) ==
  /\ pc = "updateFailed"
  /\ IF ok
     THEN /\ email_logs' = MarkFailed(email_logs, logId, error)
          /\ statusLog' = IF logId \in DOMAIN email_logs
                          THEN Append(statusLog, "failed") ELSE statusLog
          /\ faults' = faults
     ELSE /\ faults' = faults \cup {"UPDATE failed"}
          /\ UNCHANGED <<email_logs, statusLog>>
  /\ CatchTail
  /\ UNCHANGED <<conf, cache, email_logs_seq, txn, req, templateRecord,
                 renderedContent, logId, retry, error, served>>

\* how the promise sendWebhook returns can settle: TRUE resolved, FALSE rejected
SendWebhookSettles == BOOLEAN

\* the settling of a sendWebhook promise without the .catch: a rejection
\* reaches the handler and is reported as the outcome
WebhookSettle_uncaught(w, ok) ==
  /\ w \in pendingWebhooks
  /\ pendingWebhooks' = pendingWebhooks \ {w}
  /\ lastSettle' = IF ok THEN "resolved" ELSE "rejected"
  /\ outcome' = IF ok THEN outcome
                ELSE [kind |-> "next", messageId |-> 0, error |-> ResponseError]
  /\ UNCHANGED <<conf, cache, db, pool, pc, req, templateRecord,
                 renderedContent, logId, retry, error, statusLog,
                 webhooks, faults, served>>

\* the promise of a sendWebhook call settles; .catch(() => {}) drops a
\* rejection
WebhookSettle(w, ok) ==
  /\ w \in pendingWebhooks
  /\ pendingWebhooks' = pendingWebhooks \ {w}
  /\ lastSettle' = IF ok THEN "resolved" ELSE "rejected"
  /\ UNCHANGED <<conf, cache, db, pool, pc, req, templateRecord,
                 renderedContent, logId, retry, error, statusLog, outcome,
                 webhooks, faults, served>>

(***************************************************************************)
(* The template handlers createTemplate, updateTemplate and deleteTemplate *)
(* of the template controller, one process per call, one action per        *)
(* segment between two awaits.  The queries of these handlers are taken to *)
(* return, except the INSERT, which the UNIQUE(tenant_id, slug, version)   *)
(* constraint of the table can reject; the length checks of the fields     *)
(* are left out.                                                           *)
(***************************************************************************)
\* the limit of active templates per tenant
TemplateQuota == 50

\* the response res.json / res.status(201).json of a handler
Json == [kind |-> "json", messageId |-> 0, error |-> NoError]

\* next(error)
Failed(e) == [kind |-> "next", messageId |-> 0, error |-> e]

\* process p at its next await
At(p, l) == [admin[p] EXCEPT !.pc = l]

\* a throw inside the try block of process p: the catch block awaits ROLLBACK
Thrown(p, e) == [admin[p] EXCEPT !.pc = "rollback", !.error = e]

\* process p has answered with o; its transaction is over
Ended(p, o) ==
  [admin[p] EXCEPT !.pc = "done", !.outcome = o, !.open = FALSE, !.rows = {}]

\* the rows a query of process p reads: the committed rows and the rows of
\* its own transaction
Sees(p) == tenant_templates \cup admin[p].rows

\* the row with the given id, null when there is none
RowById(rows, id) ==
  IF \E r \in rows : r.id = id THEN CHOOSE r \in rows : r.id = id ELSE NoTemplate

SameKey(a, b) ==
  a.tenant_id = b.tenant_id /\ a.slug = b.slug /\ a.version = b.version

\* an INSERT waits while a transaction in progress holds a row of the same
\* (tenant_id, slug, version)
InsertWaits(p, row) ==
  \E q \in DOMAIN admin \ {p} : \E r \in admin[q].rows : SameKey(r, row)

\* the table without its UNIQUE constraint
UniqueViolation_off(rows, row) == FALSE

\* UNIQUE(tenant_id, slug, version) rejects the INSERT of row
UniqueViolation(rows, row) == \E r \in rows : SameKey(r, row)

\* key.startsWith(prefix)
StartsWith(key, prefix) ==
  Len(key) >= Len(prefix) /\ SubSeq(key, 1, Len(prefix)) = prefix

\* the invalidation whose prefix ends with the id: `template_${templateId}`
invalidateTemplateCache_noSeparator(c, templateId) ==
  CacheDel(c, {k \in DOMAIN c :
                 StartsWith(k, <<"template_">> \o Digits(templateId))})

\* TemplateRenderer.invalidateTemplateCache(templateId): the keys that start
\* with `template_${templateId}_` are deleted
invalidateTemplateCache(c, templateId) ==
  CacheDel(c, {k \in DOMAIN c :
                 StartsWith(k, <<"template_">> \o Digits(templateId) \o <<"_">>)})

\* createTemplate is called: it awaits pool.connect()
createTemplate(p, r) ==
  /\ admin[p].pc = "idle"
  /\ r.op = "create"
  /\ admin' = [admin EXCEPT ![p] = [IdleAdmin EXCEPT !.pc = "c_connect", !.req = r]]
  /\ UNCHANGED <<clock, env, tenant_templates, tenant_templates_seq, cache, pool, send>>

\* the client is acquired; validation; the slug check is awaited
CreateAfterConnect(p) ==
  /\ admin[p].pc = "c_connect"
  /\ pool' = pool + 1
  /\ LET r == admin[p].req
     IN admin' = [admin EXCEPT ![p] =
          IF r.tenantId = 0 \/ r.name = "" \/ r.slug = "" \/ r.engine = ""
             \/ r.content = "" \/ r.subjectTemplate = ""
          THEN Thrown(p, AppError("Missing required fields", 400))
          ELSE IF r.engine \notin {"handlebars", "mjml"}
          THEN Thrown(p, AppError("Engine must be handlebars or mjml", 400))
          ELSE At(p, "c_exists")]
  /\ UNCHANGED <<clock, env, tenant_templates, tenant_templates_seq, cache, send>>

\* the slug check that looks at the rows of every tenant
SlugExists_anyTenant(rows, tenantId, slug) ==
  \E t \in rows : t.slug = slug /\ t.version = 1

\* SELECT id ... WHERE tenant_id = $1 AND slug = $2 AND version = 1 has a row
SlugExists(rows, tenantId, slug) ==
  \E t \in rows : t.tenant_id = tenantId /\ t.slug = slug /\ t.version = 1

\* the slug check returns: 409 for an existing slug, else the count of the
\* active rows is awaited
CreateAfterExists(p) ==
  /\ admin[p].pc = "c_exists"
  /\ LET r == admin[p].req
     IN admin' = [admin EXCEPT ![p] =
          IF SlugExists(Sees(p), r.tenantId, r.slug)
          THEN Thrown(p, AppError("Template slug already exists for this tenant", 409))
          ELSE At(p, "c_count")]
  /\ UNCHANGED <<clock, env, tenant_templates, tenant_templates_seq, cache, pool, send>>

\* SELECT COUNT(*) as count ... WHERE tenant_id = $1 AND is_active = true
ActiveCount(rows, tenantId) ==
  Cardinality({t \in rows : t.tenant_id = tenantId /\ t.is_active})

\* the count returns: 429 at the quota, else BEGIN is awaited
CreateAfterCount(p) ==
  /\ admin[p].pc = "c_count"
  /\ LET count == ActiveCount(Sees(p), admin[p].req.tenantId)
     IN admin' = [admin EXCEPT ![p] =
          IF count >= TemplateQuota
          THEN Thrown(p, AppError("Tenant has reached the maximum of 50 templates", 429))
          ELSE At(p, "c_begin")]
  /\ UNCHANGED <<clock, env, tenant_templates, tenant_templates_seq, cache, pool, send>>

\* BEGIN returns; the INSERT is awaited
CreateAfterBegin(p) ==
  /\ admin[p].pc = "c_begin"
  /\ admin' = [admin EXCEPT ![p] = [At(p, "c_insert") EXCEPT !.open = TRUE]]
  /\ UNCHANGED <<clock, env, tenant_templates, tenant_templates_seq, cache, pool, send>>

\* the row createTemplate inserts: version 1, active
CreatedRow(r, id) ==
  [id |-> id, tenant_id |-> r.tenantId, name |-> r.name, slug |-> r.slug,
   engine |-> r.engine, content |-> r.content,
   subject_template |-> r.subjectTemplate,
   plaintext_template |-> r.plaintextTemplate, version |-> 1, is_active |-> TRUE]

\* the INSERT of process p returns: the row is in its transaction, or the
\* constraint has rejected it
Inserted(p, row, l) ==
  IF UniqueViolation(tenant_templates, row)
  THEN Thrown(p, DbError("duplicate key value violates unique constraint"))
  ELSE [At(p, l) EXCEPT !.rows = @ \cup {row}]

\* INSERT INTO tenant_templates ... RETURNING id returns; COMMIT is awaited
CreateAfterInsert(p) ==
  /\ admin[p].pc = "c_insert"
  /\ LET row == CreatedRow(admin[p].req, tenant_templates_seq)
     IN /\ ~InsertWaits(p, row)
        /\ admin' = [admin EXCEPT ![p] = Inserted(p, row, "c_commit")]
  /\ tenant_templates_seq' = tenant_templates_seq + 1
  /\ UNCHANGED <<clock, env, tenant_templates, cache, pool, send>>

\* COMMIT returns: the rows of the transaction are written, the response is
\* sent and the client released
CreateAfterCommit(p) ==
  /\ admin[p].pc = "c_commit"
  /\ tenant_templates' = tenant_templates \cup admin[p].rows
  /\ admin' = [admin EXCEPT ![p] = Ended(p, Json)]
  /\ pool' = pool - 1
  /\ UNCHANGED <<clock, env, tenant_templates_seq, cache, send>>

\* the catch block of createTemplate and updateTemplate: ROLLBACK returns,
\* next(error), and the finally block releases the client
AdminAfterRollback(p) ==
  /\ admin[p].pc = "rollback"
  /\ admin' = [admin EXCEPT ![p] = Ended(p, Failed(admin[p].error))]
  /\ pool' = pool - 1
  /\ UNCHANGED <<clock, env, tenant_templates, tenant_templates_seq, cache, send>>

\* updateTemplate is called: it awaits pool.connect()
updateTemplate(p, r) ==
  /\ admin[p].pc = "idle"
  /\ r.op = "update"
  /\ admin' = [admin EXCEPT ![p] = [IdleAdmin EXCEPT !.pc = "u_connect", !.req = r]]
  /\ UNCHANGED <<clock, env, tenant_templates, tenant_templates_seq, cache, pool, send>>

\* the client is acquired; SELECT * FROM tenant_templates WHERE id = $1 is
\* awaited
UpdateAfterConnect(p) ==
  /\ admin[p].pc = "u_connect"
  /\ pool' = pool + 1
  /\ admin' = [admin EXCEPT ![p] = At(p, "u_select")]
  /\ UNCHANGED <<clock, env, tenant_templates, tenant_templates_seq, cache, send>>

\* updates.content !== undefined || updates.engine !== undefined
isVersionUpdate(r) == r.content # "" \/ r.engine # ""

\* updates_list.length === 0
NoUpdates(r) ==
  /\ r.name = "" /\ r.engine = "" /\ r.content = ""
  /\ r.subjectTemplate = "" /\ r.plaintextTemplate = "" /\ r.isActive = ""

\* the SELECT by id returns; the update list is built; BEGIN or the UPDATE
\* in place is awaited
UpdateAfterSelect(p) ==
  /\ admin[p].pc = "u_select"
  /\ LET r == admin[p].req
         cur == RowById(Sees(p), r.id)
     IN admin' = [admin EXCEPT ![p] =
          IF cur = NoTemplate THEN Thrown(p, AppError("Template not found", 404))
          ELSE IF r.engine \notin {"", "handlebars", "mjml"}
          THEN [Thrown(p, AppError("Engine must be handlebars or mjml", 400))
                  EXCEPT !.currentTemplate = cur]
          ELSE IF NoUpdates(r)
          THEN [Thrown(p, AppError("No valid updates provided", 400))
                  EXCEPT !.currentTemplate = cur]
          ELSE [At(p, IF isVersionUpdate(r) THEN "u_begin" ELSE "u_update")
                  EXCEPT !.currentTemplate = cur]]
  /\ UNCHANGED <<clock, env, tenant_templates, tenant_templates_seq, cache, pool, send>>

\* BEGIN returns; the SELECT of the next version is awaited
UpdateAfterBegin(p) ==
  /\ admin[p].pc = "u_begin"
  /\ admin' = [admin EXCEPT ![p] = [At(p, "u_max") EXCEPT !.open = TRUE]]
  /\ UNCHANGED <<clock, env, tenant_templates, tenant_templates_seq, cache, pool, send>>

\* the highest version of the rows of a tenant and slug, 0 for no row
MaxVersion(rows, tenantId, slug) ==
  Latest({t \in rows : t.tenant_id = tenantId /\ t.slug = slug}).version

\* the next version number taken two above the highest
NextVersion_skip(rows, tenantId, slug) == MaxVersion(rows, tenantId, slug) + 2

\* SELECT COALESCE(MAX(version), 0) + 1 ... WHERE tenant_id = $1 AND slug = $2
NextVersion(rows, tenantId, slug) == MaxVersion(rows, tenantId, slug) + 1

\* the SELECT of the next version returns; the INSERT is awaited
UpdateAfterMax(p) ==
  /\ admin[p].pc = "u_max"
  /\ LET cur == admin[p].currentTemplate
     IN admin' = [admin EXCEPT ![p] =
          [At(p, "u_insert") EXCEPT
             !.nextVersion = NextVersion(Sees(p), cur.tenant_id, cur.slug)]]
  /\ UNCHANGED <<clock, env, tenant_templates, tenant_templates_seq, cache, pool, send>>

\* updates.isActive !== undefined ? updates.isActive : current
ActiveAfter(r, current) ==
  IF r.isActive = "" THEN current ELSE r.isActive = "true"

\* the row the version path of updateTemplate inserts
VersionRow(r, cur, version, id) ==
  [id |-> id, tenant_id |-> cur.tenant_id, name |-> OrElse(r.name, cur.name),
   slug |-> cur.slug, engine |-> OrElse(r.engine, cur.engine),
   content |-> OrElse(r.content, cur.content),
   subject_template |-> OrElse(r.subjectTemplate, cur.subject_template),
   plaintext_template |-> OrElse(r.plaintextTemplate, cur.plaintext_template),
   version |-> version, is_active |-> ActiveAfter(r, cur.is_active)]

\* the INSERT of the new version returns; the cache entries of the template
\* id are invalidated and COMMIT is awaited
UpdateAfterInsert(p) ==
  /\ admin[p].pc = "u_insert"
  /\ LET row == VersionRow(admin[p].req, admin[p].currentTemplate,
                           admin[p].nextVersion, tenant_templates_seq)
     IN /\ ~InsertWaits(p, row)
        /\ admin' = [admin EXCEPT ![p] = Inserted(p, row, "u_commit")]
        /\ cache' = IF UniqueViolation(tenant_templates, row) THEN cache
                    ELSE invalidateTemplateCache(cache, admin[p].req.id)
  /\ tenant_templates_seq' = tenant_templates_seq + 1
  /\ UNCHANGED <<clock, env, tenant_templates, pool, send>>

\* COMMIT returns: the new version is written, the response is sent and the
\* client released
UpdateAfterCommit(p) ==
  /\ admin[p].pc = "u_commit"
  /\ tenant_templates' = tenant_templates \cup admin[p].rows
  /\ admin' = [admin EXCEPT ![p] = Ended(p, Json)]
  /\ pool' = pool - 1
  /\ UNCHANGED <<clock, env, tenant_templates_seq, cache, send>>

\* UPDATE tenant_templates SET <the given fields> WHERE id = $n
UpdatedInPlace(t, r) ==
  [t EXCEPT !.name = OrElse(r.name, @),
            !.subject_template = OrElse(r.subjectTemplate, @),
            !.plaintext_template = OrElse(r.plaintextTemplate, @),
            !.is_active = ActiveAfter(r, @)]

\* the UPDATE in place returns (no content or engine in the request): the
\* response is sent and the client released
UpdateAfterUpdate(p) ==
  /\ admin[p].pc = "u_update"
  /\ tenant_templates' = {IF t.id = admin[p].req.id THEN UpdatedInPlace(t, admin[p].req)
                          ELSE t : t \in tenant_templates}
  /\ admin' = [admin EXCEPT ![p] = Ended(p, Json)]
  /\ pool' = pool - 1
  /\ UNCHANGED <<clock, env, tenant_templates_seq, cache, send>>

\* deleteTemplate is called: it awaits SELECT tenant_id, slug ... WHERE id = $1
deleteTemplate(p, r) ==
  /\ admin[p].pc = "idle"
  /\ r.op = "delete"
  /\ admin' = [admin EXCEPT ![p] = [IdleAdmin EXCEPT !.pc = "d_select", !.req = r]]
  /\ UNCHANGED <<clock, env, tenant_templates, tenant_templates_seq, cache, pool, send>>

\* the SELECT returns: 404 for no row, else the UPDATE is awaited
DeleteAfterSelect(p) ==
  /\ admin[p].pc = "d_select"
  /\ LET cur == RowById(tenant_templates, admin[p].req.id)
     IN admin' = [admin EXCEPT ![p] =
          IF cur = NoTemplate
          THEN Ended(p, Failed(AppError("Template not found", 404)))
          ELSE [At(p, "d_update") EXCEPT !.currentTemplate = cur]]
  /\ UNCHANGED <<clock, env, tenant_templates, tenant_templates_seq, cache, pool, send>>

\* a delete that removes the row: DELETE FROM tenant_templates WHERE id = $1
SoftDeleted_hard(rows, id) == {t \in rows : t.id # id}

\* UPDATE tenant_templates SET is_active = false WHERE id = $1
SoftDeleted(rows, id) ==
  {IF t.id = id THEN [t EXCEPT !.is_active = FALSE] ELSE t : t \in rows}

\* the UPDATE returns; the cache entries of the template id are invalidated
\* and the response is sent
DeleteAfterUpdate(p) ==
  /\ admin[p].pc = "d_update"
  /\ tenant_templates' = SoftDeleted(tenant_templates, admin[p].req.id)
  /\ cache' = invalidateTemplateCache(cache, admin[p].req.id)
  /\ admin' = [admin EXCEPT ![p] = Ended(p, Json)]
  /\ UNCHANGED <<clock, env, tenant_templates_seq, pool, send>>

Next ==
  \/ \E b \in Bodies, t \in Tenants \cup {NoTenant} : sendEmail(b, t)
  \/ AfterConnect
  \/ \E ok \in BOOLEAN : AfterResolve(ok)
  \/ AfterRender
  \/ \E ok \in BOOLEAN : AfterBegin(ok)
  \/ \E ok \in BOOLEAN : AfterInsert(ok)
  \/ SendMailOk
  \/ \E e \in TransportErrors : SendMailFail(e)
  \/ AfterSleep
  \/ \E ok \in BOOLEAN : AfterUpdateSent(ok)
  \/ \E ok \in BOOLEAN, resOk \in BOOLEAN : AfterCommit(ok, resOk)
  \/ \E ok \in BOOLEAN : AfterRollback(ok)
  \/ \E ok \in BOOLEAN : AfterUpdateFailed(ok)
  \/ \E w \in 1..(2 * MaxRequests), ok \in SendWebhookSettles : WebhookSettle(w, ok)

Spec == Init /\ [][Next]_vars

\* the template handlers next to a dispatch: the environment with no
\* variable set
DefaultEnv ==
  [RETRY_MAX_ATTEMPTS |-> "", RETRY_BASE_DELAY_MS |-> "", TENANT_DEFAULT_WEBHOOK |-> ""]

\* the dispatch sent while the templates change: the latest version of
\* slug welcome
TemplateBodies == { Body("welcome", Data1, "a@x", "", "") }

TemplateInit == Start(AdminProcs) /\ env = DefaultEnv

\* the tenant whose dispatch is followed
TemplateSenders == {t \in Tenants : t.id = 1}

\* the template handler calls run concurrently, next to a dispatch that is
\* followed through template resolution and rendering
TemplateNext ==
  \/ \E p \in AdminProcs, r \in AdminRequests : createTemplate(p, r)
  \/ \E p \in AdminProcs : CreateAfterConnect(p)
  \/ \E p \in AdminProcs : CreateAfterExists(p)
  \/ \E p \in AdminProcs : CreateAfterCount(p)
  \/ \E p \in AdminProcs : CreateAfterBegin(p)
  \/ \E p \in AdminProcs : CreateAfterInsert(p)
  \/ \E p \in AdminProcs : CreateAfterCommit(p)
  \/ \E p \in AdminProcs : AdminAfterRollback(p)
  \/ \E p \in AdminProcs, r \in AdminRequests : updateTemplate(p, r)
  \/ \E p \in AdminProcs : UpdateAfterConnect(p)
  \/ \E p \in AdminProcs : UpdateAfterSelect(p)
  \/ \E p \in AdminProcs : UpdateAfterBegin(p)
  \/ \E p \in AdminProcs : UpdateAfterMax(p)
  \/ \E p \in AdminProcs : UpdateAfterInsert(p)
  \/ \E p \in AdminProcs : UpdateAfterCommit(p)
  \/ \E p \in AdminProcs : UpdateAfterUpdate(p)
  \/ \E p \in AdminProcs, r \in AdminRequests : deleteTemplate(p, r)
  \/ \E p \in AdminProcs : DeleteAfterSelect(p)
  \/ \E p \in AdminProcs : DeleteAfterUpdate(p)
  \/ \E b \in TemplateBodies, t \in TemplateSenders : sendEmail(b, t)
  \/ AfterConnect
  \/ \E ok \in BOOLEAN : AfterResolve(ok)
  \/ AfterRender

TemplateSpec == TemplateInit /\ [][TemplateNext]_vars

(***************************************************************************)
(* The template handlers of a tenant that is one template below the quota: *)
(* TemplateQuota - 1 active templates of one version each, one template    *)
(* that was soft-deleted, and a template of another tenant.                *)
(***************************************************************************)
QuotaTemplates ==
  { TemplateRow(i, 1, "t" \o ToString(i), 1, TRUE, "<h1>{{n}}</h1>") :
      i \in 1..(TemplateQuota - 1) }
  \cup { TemplateRow(TemplateQuota, 1, "old", 1, FALSE, "<h1>{{n}}</h1>"),
         TemplateRow(TemplateQuota + 1, 2, "new1", 1, TRUE, "<h1>{{n}}</h1>") }

\* the calls made against that tenant
QuotaRequests ==
  { AdminRequest("create", 0, 1, "new1", "<p>{{n}}</p>", "New {{n}}", ""),
    AdminRequest("create", 0, 1, "new2", "<p>{{n}}</p>", "New {{n}}", ""),
    AdminRequest("create", 0, 1, "t1", "<p>{{n}}</p>", "New {{n}}", ""),
    AdminRequest("update", 1, 0, "", "<h3>{{n}}</h3>", "", ""),
    AdminRequest("update", TemplateQuota, 0, "", "", "", "true"),
    AdminRequest("delete", 2, 0, "", "", "", "") }

QuotaInit == StartFrom(AdminProcs, QuotaTemplates) /\ env = DefaultEnv

QuotaNext ==
  \/ \E p \in AdminProcs, r \in QuotaRequests : createTemplate(p, r)
  \/ \E p \in AdminProcs : CreateAfterConnect(p)
  \/ \E p \in AdminProcs : CreateAfterExists(p)
  \/ \E p \in AdminProcs : CreateAfterCount(p)
  \/ \E p \in AdminProcs : CreateAfterBegin(p)
  \/ \E p \in AdminProcs : CreateAfterInsert(p)
  \/ \E p \in AdminProcs : CreateAfterCommit(p)
  \/ \E p \in AdminProcs : AdminAfterRollback(p)
  \/ \E p \in AdminProcs, r \in QuotaRequests : updateTemplate(p, r)
  \/ \E p \in AdminProcs : UpdateAfterConnect(p)
  \/ \E p \in AdminProcs : UpdateAfterSelect(p)
  \/ \E p \in AdminProcs : UpdateAfterBegin(p)
  \/ \E p \in AdminProcs : UpdateAfterMax(p)
  \/ \E p \in AdminProcs : UpdateAfterInsert(p)
  \/ \E p \in AdminProcs : UpdateAfterCommit(p)
  \/ \E p \in AdminProcs : UpdateAfterUpdate(p)
  \/ \E p \in AdminProcs, r \in QuotaRequests : deleteTemplate(p, r)
  \/ \E p \in AdminProcs : DeleteAfterSelect(p)
  \/ \E p \in AdminProcs : DeleteAfterUpdate(p)

QuotaSpec == QuotaInit /\ [][QuotaNext]_vars

(***************************************************************************)
(* The renderer alone: calls of TemplateRenderer.renderTemplate and        *)
(* invalidateTemplateCache as sendEmail, previewTemplate and the template  *)
(* handlers make them, the clock, and the periodic check of the cache.     *)
(***************************************************************************)
\* JSON.stringify of {"a":"Aa"} and of {"a":"BB"}
DataAa == <<123, 34, 97, 34, 58, 34, 65, 97, 34, 125>>
DataBB == <<123, 34, 97, 34, 58, 34, 66, 66, 34, 125>>
RenderData == {Data1, DataAa, DataBB}

\* the records rendered: row 1, row 1 after its subject was updated in
\* place, row 2 (malformed content), and a row whose id starts with 1
RenderRecords ==
  { TemplateRow(1, 1, "welcome", 1, TRUE, "<h1>{{n}}</h1>"),
    [TemplateRow(1, 1, "welcome", 1, TRUE, "<h1>{{n}}</h1>")
       EXCEPT !.subject_template = "{{#if"],
    TemplateRow(2, 1, "welcome", 2, TRUE, "{{#if"),
    [TemplateRow(12, 1, "news", 1, TRUE, "<mjml>{{n}}</mjml>")
       EXCEPT !.engine = "mjml"] }

\* the records rendered for their text: row 1, which has no plaintext
\* template, and a row with a plaintext template, before and after that
\* was updated in place
PlainTextRecords ==
  { TemplateRow(1, 1, "welcome", 1, TRUE, "<h1>{{n}}</h1>"),
    [TemplateRow(7, 1, "news", 1, TRUE, "<h1>{{n}}</h1>")
       EXCEPT !.plaintext_template = "News {{n}}"],
    [TemplateRow(7, 1, "news", 1, TRUE, "<h1>{{n}}</h1>")
       EXCEPT !.plaintext_template = "{{#if"] }

PlainTextData == {Data1, DataAa}
PlainTextIds == {r.id : r \in PlainTextRecords}

RenderIds == {r.id : r \in RenderRecords}

\* the cache keys of these renders
RenderKeys ==
  [record \in RenderRecords \cup PlainTextRecords, data \in RenderData |->
     CacheKeyOf(record, data)]

\* the time one step of the clock takes, in seconds
TickSeconds == StdTTL

\* the age of a cache entry: the time since cache.set wrote it
Age(entry, time) == time - (entry.t - StdTTL)

\* TemplateRenderer.renderTemplate(record, data) is called and returns or
\* throws.  lastRender keeps what the call found and did: found, an entry
\* under its key; stale, that entry older than the TTL; hit, the entry
\* returned; steps, the compile steps run; expires, when the entry of its
\* result expires; repeat, the call repeats the call before it, which
\* returned a result, with no invalidation and no expiry of the entry in
\* between; same, the result is that of the call before
RenderCall(record, data) ==
  /\ LET key == RenderKeys[record, data]
         hit == CacheGet(cache, key, now).ok
         after == CacheAfterRenderKeyed(cache, key, record, data, now)
         result == RenderKeyed(cache, key, record, data, now)
     IN /\ cache' = after
        /\ lastRender' =
             [record |-> record, data |-> data,
              found |-> key \in DOMAIN cache,
              stale |-> key \in DOMAIN cache /\ Age(cache[key], now) > StdTTL,
              hit |-> hit,
              steps |-> IF hit THEN <<>> ELSE CompileSteps(record),
              result |-> result,
              expires |-> IF key \in DOMAIN after THEN after[key].t ELSE 0,
              repeat |-> /\ lastRender.record = record
                         /\ lastRender.data = data
                         /\ lastRender.result.ok
                         /\ ~invalidated
                         /\ now <= lastRender.expires,
              same |-> result = lastRender.result]
  /\ invalidated' = FALSE
  /\ UNCHANGED <<env, tenant_templates, tenant_templates_seq, admin, now,
                 pool, send, listing>>

\* TemplateRenderer.invalidateTemplateCache(String(id)) is called
InvalidateCall(id) ==
  /\ cache' = invalidateTemplateCache(cache, id)
  /\ invalidated' = TRUE
  /\ UNCHANGED <<env, tenant_templates, tenant_templates_seq, admin, now,
                 lastRender, pool, send, listing>>

\* time passes
Tick ==
  /\ now < MaxClock * TickSeconds
  /\ now' = now + TickSeconds
  /\ UNCHANGED <<env, tenant_templates, tenant_templates_seq, admin, cache,
                 lastRender, invalidated, pool, send, listing>>

\* the timer of checkperiod fires and finds expired entries
CacheCheckRuns ==
  /\ now % CheckPeriod = 0
  /\ CacheCheck(cache, now) # cache
  /\ cache' = CacheCheck(cache, now)
  /\ UNCHANGED <<env, tenant_templates, tenant_templates_seq, admin, now,
                 lastRender, invalidated, pool, send, listing>>

RenderInit == Start({}) /\ env = DefaultEnv

RenderNext ==
  \/ \E record \in RenderRecords, data \in RenderData : RenderCall(record, data)
  \/ \E id \in RenderIds : InvalidateCall(id)
  \/ Tick
  \/ CacheCheckRuns

RenderSpec == RenderInit /\ [][RenderNext]_vars

\* the renderer over the records rendered for their text
PlainTextNext ==
  \/ \E record \in PlainTextRecords, data \in PlainTextData : RenderCall(record, data)
  \/ \E id \in PlainTextIds : InvalidateCall(id)
  \/ Tick
  \/ CacheCheckRuns

PlainTextSpec == RenderInit /\ [][PlainTextNext]_vars

(***************************************************************************)
(* Concurrent sendEmail calls and the pool of database clients.  Each call *)
(* is followed through the awaits at which it holds or waits for a client: *)
(* pool.connect(), the INSERT of its log row, transporter.sendMail, the    *)
(* backoff sleep, and the finally block that releases the client.  The     *)
(* pool is the pg Pool of db/pool: pool.connect() resolves with a client   *)
(* while fewer than PoolMax are checked out and waits otherwise.  Every    *)
(* failure of sendMail is taken as transient.                              *)
(***************************************************************************)
Dispatchers == 1..(PoolMax + 1)

\* dispatch d at its next await
DispatchAt(d, l) == [dispatches EXCEPT ![d].pc = l]

\* sendEmail is called: it awaits pool.connect()
DispatchCalled(d) ==
  /\ dispatches[d].pc = "idle"
  /\ dispatches' = DispatchAt(d, "connect")
  /\ UNCHANGED <<env, tenant_templates, tenant_templates_seq, admin, clock,
                 cache, pool, email_logs, email_logs_seq, txn, pc, req,
                 templateRecord, renderedContent, logId, retry, error,
                 statusLog, outcome, hooks, faults, served>>

\* pool.connect() resolves with a free client; validation, BEGIN; the
\* INSERT of the log row is awaited
DispatchConnected(d) ==
  /\ dispatches[d].pc = "connect"
  /\ pool < PoolMax
  /\ pool' = pool + 1
  /\ dispatches' = DispatchAt(d, "insert")
  /\ UNCHANGED <<env, tenant_templates, tenant_templates_seq, admin, clock,
                 cache, email_logs, email_logs_seq, txn, pc, req,
                 templateRecord, renderedContent, logId, retry, error,
                 statusLog, outcome, hooks, faults, served>>

\* the INSERT returns; the loop is entered and sendMail is awaited
DispatchInserted(d) ==
  /\ dispatches[d].pc = "insert"
  /\ dispatches' = [dispatches EXCEPT ![d] = [pc |-> "sendMail", attempt |-> 1]]
  /\ UNCHANGED <<env, tenant_templates, tenant_templates_seq, admin, clock,
                 cache, pool, email_logs, email_logs_seq, txn, pc, req,
                 templateRecord, renderedContent, logId, retry, error,
                 statusLog, outcome, hooks, faults, served>>

\* sendMail resolves, or rejects for the last time: the row is updated,
\* the caller answered, and the finally block releases the client
DispatchFinished(d, ok) ==
  /\ dispatches[d].pc = "sendMail"
  /\ ok \/ LastAttempt(dispatches[d].attempt, MaxAttemptsOf(env))
  /\ pool' = pool - 1
  /\ dispatches' = DispatchAt(d, "done")
  /\ UNCHANGED <<env, tenant_templates, tenant_templates_seq, admin, clock,
                 cache, email_logs, email_logs_seq, txn, pc, req,
                 templateRecord, renderedContent, logId, retry, error,
                 statusLog, outcome, hooks, faults, served>>

\* sendMail rejects before the last attempt: the backoff sleep is awaited,
\* the client still checked out
DispatchBacksOff(d) ==
  /\ dispatches[d].pc = "sendMail"
  /\ ~LastAttempt(dispatches[d].attempt, MaxAttemptsOf(env))
  /\ dispatches' = DispatchAt(d, "sleep")
  /\ UNCHANGED <<env, tenant_templates, tenant_templates_seq, admin, clock,
                 cache, pool, email_logs, email_logs_seq, txn, pc, req,
                 templateRecord, renderedContent, logId, retry, error,
                 statusLog, outcome, hooks, faults, served>>

\* the sleep ends: attempt++ and sendMail is awaited again
DispatchWakes(d) ==
  /\ dispatches[d].pc = "sleep"
  /\ dispatches' = [dispatches EXCEPT ![d] =
                      [pc |-> "sendMail", attempt |-> dispatches[d].attempt + 1]]
  /\ UNCHANGED <<env, tenant_templates, tenant_templates_seq, admin, clock,
                 cache, pool, email_logs, email_logs_seq, txn, pc, req,
                 templateRecord, renderedContent, logId, retry, error,
                 statusLog, outcome, hooks, faults, served>>

PoolInit == StartAll({}, InitialTemplates, Dispatchers) /\ env = DefaultEnv

PoolNext ==
  \/ \E d \in Dispatchers : DispatchCalled(d)
  \/ \E d \in Dispatchers : DispatchConnected(d)
  \/ \E d \in Dispatchers : DispatchInserted(d)
  \/ \E d \in Dispatchers, ok \in BOOLEAN : DispatchFinished(d, ok)
  \/ \E d \in Dispatchers : DispatchBacksOff(d)
  \/ \E d \in Dispatchers : DispatchWakes(d)

PoolSpec == PoolInit /\ [][PoolNext]_vars

(***************************************************************************)
(* The handlers that take a client from the pool, each on all its paths:   *)
(* one sendEmail call next to one createTemplate or updateTemplate call,   *)
(* with requests that validation rejects among them.                       *)
(***************************************************************************)
\* the process of the template handler call
ClientProcs == {1}

ClientRequests ==
  { AdminRequest("create", 0, 1, "promo", "<p>{{n}}</p>", "Promo {{n}}", ""),
    AdminRequest("create", 0, 1, "promo", "", "Promo {{n}}", ""),
    AdminRequest("create", 0, 1, "welcome", "<p>{{n}}</p>", "Hi {{n}}", ""),
    AdminRequest("update", 1, 0, "", "<h3>{{n}}</h3>", "", ""),
    AdminRequest("update", 1, 0, "", "", "", ""),
    AdminRequest("update", 1, 0, "", "", "Yo {{n}}", ""),
    AdminRequest("update", 5, 0, "", "<h3>{{n}}</h3>", "", "") }

ClientBodies ==
  { Body("", NoData, "a@x", "Hello", "<p>{{n}}</p>"),
    Body("", NoData, "a@x", "Hello", ""),
    Body("welcome", Data1, "a@x", "", ""),
    Body("missing", Data1, "a@x", "", "") }

ClientInit == Start(ClientProcs) /\ env = DefaultEnv

ClientNext ==
  \/ \E p \in ClientProcs, r \in ClientRequests : createTemplate(p, r)
  \/ \E p \in ClientProcs : CreateAfterConnect(p)
  \/ \E p \in ClientProcs : CreateAfterExists(p)
  \/ \E p \in ClientProcs : CreateAfterCount(p)
  \/ \E p \in ClientProcs : CreateAfterBegin(p)
  \/ \E p \in ClientProcs : CreateAfterInsert(p)
  \/ \E p \in ClientProcs : CreateAfterCommit(p)
  \/ \E p \in ClientProcs : AdminAfterRollback(p)
  \/ \E p \in ClientProcs, r \in ClientRequests : updateTemplate(p, r)
  \/ \E p \in ClientProcs : UpdateAfterConnect(p)
  \/ \E p \in ClientProcs : UpdateAfterSelect(p)
  \/ \E p \in ClientProcs : UpdateAfterBegin(p)
  \/ \E p \in ClientProcs : UpdateAfterMax(p)
  \/ \E p \in ClientProcs : UpdateAfterInsert(p)
  \/ \E p \in ClientProcs : UpdateAfterCommit(p)
  \/ \E p \in ClientProcs : UpdateAfterUpdate(p)
  \/ \E b \in ClientBodies, t \in TemplateSenders : sendEmail(b, t)
  \/ AfterConnect
  \/ \E ok \in BOOLEAN : AfterResolve(ok)
  \/ AfterRender
  \/ \E ok \in BOOLEAN : AfterBegin(ok)
  \/ \E ok \in BOOLEAN : AfterInsert(ok)
  \/ SendMailOk
  \/ \E e \in TransportErrors : SendMailFail(e)
  \/ AfterSleep
  \/ \E ok \in BOOLEAN : AfterUpdateSent(ok)
  \/ \E ok \in BOOLEAN, resOk \in BOOLEAN : AfterCommit(ok, resOk)
  \/ \E ok \in BOOLEAN : AfterRollback(ok)
  \/ \E ok \in BOOLEAN : AfterUpdateFailed(ok)
  \/ \E w \in 1..(2 * MaxRequests), ok \in SendWebhookSettles : WebhookSettle(w, ok)

ClientSpec == ClientInit /\ [][ClientNext]_vars

(***************************************************************************)
(* The renderer next to the template handlers: the stored rows are         *)
(* rendered before and after a handler call changes them.                  *)
(***************************************************************************)
CacheRequests ==
  { AdminRequest("create", 0, 1, "promo", "<p>{{n}}</p>", "Promo {{n}}", ""),
    AdminRequest("update", 1, 0, "", "<h3>{{n}}</h3>", "", ""),
    AdminRequest("update", 1, 0, "", "", "Yo {{n}}", ""),
    AdminRequest("delete", 2, 0, "", "", "", "") }

\* the ids of the rows that are rendered
CacheIds == 1..(Cardinality(InitialTemplates) + 1)

\* TemplateRenderer.renderTemplate(row, data) is called with the stored row
\* of the given id
StoredRender(id, data) ==
  /\ RowById(tenant_templates, id) # NoTemplate
  /\ LET row == RowById(tenant_templates, id)
     IN /\ cache' = CacheAfterRender(cache, row, data, now)
        /\ lastRender' =
             [NoRender EXCEPT
                !.record = row, !.data = data,
                !.hit = CacheGet(cache, CacheKeyOf(row, data), now).ok,
                !.result = renderTemplate(cache, row, data, now)]
  /\ invalidated' = FALSE
  /\ UNCHANGED <<env, tenant_templates, tenant_templates_seq, admin, now,
                 pool, send, listing>>

CacheInit == Start(ClientProcs) /\ env = DefaultEnv

CacheNext ==
  \/ \E p \in ClientProcs, r \in CacheRequests : createTemplate(p, r)
  \/ \E p \in ClientProcs : CreateAfterConnect(p)
  \/ \E p \in ClientProcs : CreateAfterExists(p)
  \/ \E p \in ClientProcs : CreateAfterCount(p)
  \/ \E p \in ClientProcs : CreateAfterBegin(p)
  \/ \E p \in ClientProcs : CreateAfterInsert(p)
  \/ \E p \in ClientProcs : CreateAfterCommit(p)
  \/ \E p \in ClientProcs, r \in CacheRequests : updateTemplate(p, r)
  \/ \E p \in ClientProcs : UpdateAfterConnect(p)
  \/ \E p \in ClientProcs : UpdateAfterSelect(p)
  \/ \E p \in ClientProcs : UpdateAfterBegin(p)
  \/ \E p \in ClientProcs : UpdateAfterMax(p)
  \/ \E p \in ClientProcs : UpdateAfterInsert(p)
  \/ \E p \in ClientProcs : UpdateAfterCommit(p)
  \/ \E p \in ClientProcs : UpdateAfterUpdate(p)
  \/ \E p \in ClientProcs, r \in CacheRequests : deleteTemplate(p, r)
  \/ \E p \in ClientProcs : DeleteAfterSelect(p)
  \/ \E p \in ClientProcs : DeleteAfterUpdate(p)
  \/ \E id \in CacheIds : StoredRender(id, Data1)

CacheSpec == CacheInit /\ [][CacheNext]_vars

(***************************************************************************)
(* listTemplates: the count of the active rows of the tenant, then the     *)
(* page of its templates, next to a template handler call.                 *)
(***************************************************************************)
\* the slugs of the rows, in the order of ORDER BY slug
SlugsInOrder == <<"promo", "welcome">>

\* WHERE tenant_id = $1 AND is_active = true, of one slug
ActiveOf(rows, tenantId, slug) ==
  {t \in rows : t.tenant_id = tenantId /\ t.is_active /\ t.slug = slug}

\* SELECT DISTINCT ON (slug) ... WHERE tenant_id = $1 AND is_active = true
\* ORDER BY slug, version DESC: the highest active version of each slug
DistinctOnSlug(rows, tenantId) ==
  LET slugs == SelectSeq(SlugsInOrder, LAMBDA s : ActiveOf(rows, tenantId, s) # {})
  IN [i \in 1..Len(slugs) |-> Latest(ActiveOf(rows, tenantId, slugs[i]))]

\* LIMIT $2 OFFSET $3
LimitOffset(seq, limit, offset) ==
  IF offset >= Len(seq) THEN <<>>
  ELSE SubSeq(seq, offset + 1, IF offset + limit < Len(seq) THEN offset + limit ELSE Len(seq))

\* Math.ceil(total / limit)
Ceil(total, limit) == (total + limit - 1) \div limit

\* req.params.tenantId, req.query.page and req.query.limit
ListTenants == {1, 2}
ListPages == {1, 2}
ListLimits == {1, 2}

\* listTemplates is called: SELECT COUNT(*) is awaited
listTemplates(tenantId, page, limit) ==
  /\ listing.pc = "idle"
  /\ listing' = [NoListing EXCEPT !.pc = "count", !.tenantId = tenantId,
                                  !.page = page, !.limit = limit]
  /\ UNCHANGED <<env, tenant_templates, tenant_templates_seq, admin, now,
                 lastRender, invalidated, cache, pool, send>>

\* the count returns; the SELECT of the page is awaited
ListAfterCount ==
  /\ listing.pc = "count"
  /\ listing' = [listing EXCEPT !.pc = "select",
                                !.total = ActiveCount(tenant_templates, listing.tenantId)]
  /\ UNCHANGED <<env, tenant_templates, tenant_templates_seq, admin, now,
                 lastRender, invalidated, cache, pool, send>>

\* the page returns and the response is sent; listed is the number of
\* templates the SELECT gives over all its pages
ListAfterSelect ==
  /\ listing.pc = "select"
  /\ LET all == DistinctOnSlug(tenant_templates, listing.tenantId)
     IN listing' =
          [listing EXCEPT
             !.pc = "done",
             !.data = LimitOffset(all, listing.limit, (listing.page - 1) * listing.limit),
             !.pages = Ceil(listing.total, listing.limit),
             !.listed = Len(all)]
  /\ UNCHANGED <<env, tenant_templates, tenant_templates_seq, admin, now,
                 lastRender, invalidated, cache, pool, send>>

ListRequests ==
  { AdminRequest("create", 0, 1, "promo", "<p>{{n}}</p>", "Promo {{n}}", ""),
    AdminRequest("update", 3, 0, "", "<h3>{{n}}</h3>", "", ""),
    AdminRequest("delete", 2, 0, "", "", "", "") }

ListInit == Start(ClientProcs) /\ env = DefaultEnv

ListNext ==
  \/ \E t \in ListTenants, page \in ListPages, limit \in ListLimits :
        listTemplates(t, page, limit)
  \/ ListAfterCount
  \/ ListAfterSelect
  \/ \E p \in ClientProcs, r \in ListRequests : createTemplate(p, r)
  \/ \E p \in ClientProcs : CreateAfterConnect(p)
  \/ \E p \in ClientProcs : CreateAfterExists(p)
  \/ \E p \in ClientProcs : CreateAfterCount(p)
  \/ \E p \in ClientProcs : CreateAfterBegin(p)
  \/ \E p \in ClientProcs : CreateAfterInsert(p)
  \/ \E p \in ClientProcs : CreateAfterCommit(p)
  \/ \E p \in ClientProcs, r \in ListRequests : updateTemplate(p, r)
  \/ \E p \in ClientProcs : UpdateAfterConnect(p)
  \/ \E p \in ClientProcs : UpdateAfterSelect(p)
  \/ \E p \in ClientProcs : UpdateAfterBegin(p)
  \/ \E p \in ClientProcs : UpdateAfterMax(p)
  \/ \E p \in ClientProcs : UpdateAfterInsert(p)
  \/ \E p \in ClientProcs : UpdateAfterCommit(p)
  \/ \E p \in ClientProcs, r \in ListRequests : deleteTemplate(p, r)
  \/ \E p \in ClientProcs : DeleteAfterSelect(p)
  \/ \E p \in ClientProcs : DeleteAfterUpdate(p)

ListSpec == ListInit /\ [][ListNext]_vars

TypeOK ==
  /\ pc \in {"idle", "connect", "resolve", "render", "begin", "insert", "sendMail",
              "sleep", "updateSent", "commit", "rollback", "updateFailed", "done"}
  /\ pool \in 0..(1 + MaxAdminCalls)
  /\ calls \in Nat
  /\ logId \in Nat

(***************************************************************************)
(* Properties.                                                             *)
(***************************************************************************)
\* the dispatch has ended
Done == pc = "done"

\* the dispatch inserted its log row and its delivery failed
DeliveryFailed == logId # 0 /\ info = NoInfo /\ lastError # NoError

\* the retry ceiling in force
Ceiling == MaxAttemptsOf(env)

\* the status of row id as the connection of the dispatch sees it
VisibleStatus(table, t, id) ==
  IF t.open /\ id \in DOMAIN t.rows THEN t.rows[id].status
  ELSE IF id \in DOMAIN table THEN table[id].status
  ELSE "none"

\* C1: when a dispatch has inserted its log row and delivery then fails,
\* after the dispatch ends the log store holds that row with status 'failed'
\* and the message of the delivery error as its error text.
C1_FailedRowPersisted ==
  (Done /\ DeliveryFailed) =>
     /\ logId \in DOMAIN email_logs
     /\ email_logs[logId].status = "failed"
     /\ email_logs[logId].error_message = lastError.message

\* C2: whenever a transporter.sendMail call of a dispatch is in progress,
\* the log store holds a committed row of that dispatch with status
\* 'sending' (the row other readers see and a crash leaves behind).
C2_SendingRowVisible ==
  pc = "sendMail" =>
     /\ logId \in DOMAIN email_logs
     /\ email_logs[logId].status = "sending"

\* C3: the log row of a dispatch becomes terminal once: no step of the same
\* sendEmail call takes its status from 'sent' to 'failed' or from 'failed'
\* to 'sent'.
C3_TerminalOnce ==
  [][logId' = logId =>
       LET before == VisibleStatus(email_logs, txn, logId)
           after == VisibleStatus(email_logs', txn', logId)
       IN /\ (before = "sent" => after # "failed")
          /\ (before = "failed" => after # "sent")]_vars

\* transient as the claim C4 lists it: ETIMEDOUT, ECONNRESET, EAI_AGAIN, or
\* an SMTP response code 421, 450, 451, 452
ClaimedTransient(err) ==
  \/ err.code \in {"ETIMEDOUT", "ECONNRESET", "EAI_AGAIN"}
  \/ ResponseCodeOf(err) \in {421, 450, 451, 452}

\* transient with the socket error ESOCKET added to the list
AmendedTransient(err) ==
  \/ err.code \in {"ETIMEDOUT", "ESOCKET", "ECONNRESET", "EAI_AGAIN"}
  \/ ResponseCodeOf(err) \in {421, 450, 451, 452}

\* C4 as stated: a further transport attempt follows a failed attempt only
\* if that failure is transient in the sense of ClaimedTransient.
C4_RetryOnlyIfClaimedTransient ==
  [][(calls' = calls + 1 /\ calls >= 1) => ClaimedTransient(lastError)]_vars

\* C4 amended: a further transport attempt follows a failed attempt only if
\* that failure is transient, where ESOCKET counts as transient too; a
\* dispatch that ends on a failure that is not transient made no attempt
\* after it, so a permanent failure on the first attempt gives one call.
C4_RetryOnlyIfTransient ==
  /\ [][(calls' = calls + 1 /\ calls >= 1) => AmendedTransient(lastError)]_vars
  /\ []((Done /\ lastError # NoError /\ ~AmendedTransient(lastError))
          => calls = lastError.at)

\* a second attempt is under way after a transient failure
C4_Witness ==
  pc = "sendMail" /\ calls = 2 /\ lastError.code = "ESOCKET"

\* C5: a dispatch calls the transport at most maxAttempts times (3 when the
\* environment sets no ceiling), and makes no call after one has succeeded.
C5_AtMostMaxAttempts ==
  /\ calls <= (IF Ceiling = NaN THEN 0 ELSE Ceiling)
  /\ (env.RETRY_MAX_ATTEMPTS = "" => calls <= 3)
  /\ (info # NoInfo => calls = info.messageId)

\* a dispatch that used all three attempts of the default ceiling
C5_Witness ==
  Done /\ env.RETRY_MAX_ATTEMPTS = "" /\ calls = 3

\* the run of the scenario of C6: default ceiling and base delay, two failed
\* attempts and a success on the third, no other fault met
C6_Scenario ==
  /\ Done
  /\ env.RETRY_MAX_ATTEMPTS = ""
  /\ env.RETRY_BASE_DELAY_MS = ""
  /\ calls = 3
  /\ info # NoInfo

\* C6: the pipeline sleeps only between attempts (after failed attempt k
\* and before attempt k + 1), the k-th sleep is baseDelay * 2^(k-1); in the
\* scenario the delays are 500 then 1000, and when the log store and the
\* response meet no fault the dispatch succeeds with the row going
\* sending -> sent.
C6_BackoffSequence ==
  /\ \A k \in 1..Len(sleeps) : sleeps[k] = BaseDelayOf(env) * Pow2(k - 1)
  /\ Len(sleeps) = (IF pc = "sleep" THEN calls
                    ELSE IF calls = 0 THEN 0 ELSE calls - 1)
  /\ (C6_Scenario => sleeps = <<500, 1000>>)
  /\ (C6_Scenario /\ faults = {} =>
        /\ outcome.kind = "json"
        /\ statusLog = <<"sending", "sent">>
        /\ logId \in DOMAIN email_logs
        /\ email_logs[logId].status = "sent")

C6_Witness ==
  C6_Scenario /\ faults = {} /\ sleeps = <<500, 1000>> /\ outcome.kind = "json"

\* C7: when every attempt up to the retry ceiling fails with a transient
\* error, the caller is given the error of the last attempt.
C7_LastErrorSurfaced ==
  (Done /\ DeliveryFailed /\ calls = Ceiling /\ shouldRetry(lastError)) =>
     /\ lastError.at = calls
     /\ outcome.kind = "next"
     /\ outcome.error = lastError

\* C8: when delivery fails the caller is given the delivery error, also
\* when the ROLLBACK or the UPDATE to 'failed' of the failure path fails.
C8_DeliveryErrorNotMasked ==
  (Done /\ DeliveryFailed /\ faults \subseteq {"ROLLBACK", "UPDATE failed"}) =>
     /\ outcome.kind = "next"
     /\ outcome.error = lastError

\* C9: when a transport attempt has succeeded the caller is given the
\* success response with the messageId, also when the UPDATE to 'sent' or
\* the COMMIT that follows fails.
C9_SuccessNotMaskedByLogging ==
  (Done /\ info # NoInfo /\ faults \subseteq {"UPDATE sent", "COMMIT"}) =>
     /\ outcome.kind = "json"
     /\ outcome.messageId = info.messageId

\* C10: the rejection of a sendWebhook promise changes neither the outcome
\* given to the caller nor the log row, nor the course of the handler, on
\* the sent path and on the failed path.
C10_WebhookFailureNoEffect ==
  /\ [][(pendingWebhooks' # pendingWebhooks /\ pendingWebhooks' \subseteq pendingWebhooks
           /\ lastSettle' = "rejected")
          => /\ outcome' = outcome
             /\ email_logs' = email_logs
             /\ txn' = txn
             /\ pc' = pc
             /\ error' = error]_vars
  /\ []((Done /\ lastSettle = "rejected" /\ faults = {} /\ info # NoInfo)
          => outcome = SuccessResponse(info) /\ email_logs[logId].status = "sent")
  /\ []((Done /\ lastSettle = "rejected" /\ faults = {} /\ DeliveryFailed)
          => outcome.kind = "next" /\ outcome.error = lastError)

\* a 'failed' webhook was rejected after the dispatch ended
C10_Witness ==
  /\ Done
  /\ lastSettle = "rejected"
  /\ webhooks # <<>>
  /\ pendingWebhooks = {}

\* the webhook events emitted for the log row id, in order
EventsOf(id) == SelectSeq(webhooks, LAMBDA w : w.emailLogId = id)

\* C11: when a dispatch of a tenant with a webhook URL (its own or the
\* default) has ended with its log row in a terminal state, exactly one
\* webhook event was emitted for that row and its type is that state.
C11_OneEventPerTerminalState ==
  (/\ Done
   /\ WebhookUrl(req.tenant, env) # ""
   /\ logId \in DOMAIN email_logs
   /\ email_logs[logId].status \in {"sent", "failed"}) =>
     /\ Len(EventsOf(logId)) = 1
     /\ EventsOf(logId)[1].event = email_logs[logId].status

\* the request names a template, by id or by slug
IdentifiesTemplate(body) == body.templateId # "" \/ body.templateSlug # ""

\* the errors of the two validations
LegacyValidationError == AppError("Missing required fields", 400)
TemplateValidationError == AppError("Missing required fields for template mode", 400)

\* C12: a request that names a template by id or by slug is handled in
\* template mode (it is validated as a template request and its log row is
\* written only after a template was resolved); a request that names no
\* template is handled in legacy mode.
C12_TemplateModeByIdOrSlug ==
  pc \notin {"idle", "connect"} =>
     IF IdentifiesTemplate(req.body)
     THEN /\ error # LegacyValidationError
          /\ (logId # 0 => templateRecord # NoTemplate)
     ELSE /\ error # TemplateValidationError
          /\ templateRecord = NoTemplate

\* TemplateRenderer.renderTemplate has failed in this dispatch
RenderFailed ==
  /\ isTemplateMode(req.body)
  /\ templateRecord # NoTemplate
  /\ pc \notin {"idle", "connect", "resolve", "render"}
  /\ ~renderedContent.rendered

\* C13: in template mode, when the render fails and the request carries no
\* raw content, no log row is inserted, the transport is never called and
\* the caller is given the error.
C13_RenderErrorPropagates ==
  (RenderFailed /\ req.body.htmlBody = "") =>
     /\ logId = 0
     /\ calls = 0
     /\ (Done => outcome.kind = "next")

\* the error of a template lookup that finds no row
NotFound == AppError("Template not found", 404)

\* C14: a template-mode request whose slug (and version) resolves to no
\* active template of the tenant gives the caller NotFound, and it inserts
\* no log row, makes no transport call and emits no webhook event.
C14_NotFoundNoEffect ==
  (Done /\ error = NotFound) =>
     /\ outcome = Failed(NotFound)
     /\ logId = 0
     /\ statusLog = <<>>
     /\ calls = 0
     /\ EventsOf(logId) = <<>>

\* the tenants, slugs and versions lookups are made with
TenantIds == {t.id : t \in Tenants}
Slugs == {"welcome", "promo"}
VersionsAsked == {Undefined} \cup (0..(2 + MaxAdminCalls))

\* C15: resolveTemplate returns only rows of the given tenant, whatever the
\* rows of the other tenants are; the record a dispatch resolves and the
\* content it renders belong to a row of the tenant of the dispatch.
C15_ResolveTenantScoped ==
  /\ \A t \in TenantIds, slug \in Slugs, v \in VersionsAsked :
        LET r == resolveTemplate(tenant_templates, t, slug, v)
        IN r = NoTemplate \/ r.tenant_id = t
  /\ (templateRecord # NoTemplate => templateRecord.tenant_id = req.tenant.id)
  /\ (renderedContent.rendered =>
        \E r \in tenant_templates :
           /\ r.tenant_id = req.tenant.id
           /\ r.id = templateRecord.id
           /\ renderedContent.html = Expand(r.content, req.body.templateData))

\* a dispatch of tenant 1 has rendered its template while tenant 2 holds an
\* active row of the same slug with a higher version, made by an update
C15_Witness ==
  /\ req.tenant.id = 1
  /\ renderedContent.rendered
  /\ \E r \in tenant_templates :
        /\ r.tenant_id = 2
        /\ r.slug = templateRecord.slug
        /\ r.is_active
        /\ r.id >= 5

\* C16: with no version resolveTemplate returns the active row with the
\* highest version of the tenant and slug, NotFound when there is no active
\* row; with a version it returns the row of exactly that version when that
\* row is active, and NotFound otherwise.
C16_ResolvePolicy ==
  \A t \in TenantIds, slug \in Slugs, v \in VersionsAsked :
     LET active == {r \in tenant_templates :
                      r.tenant_id = t /\ r.slug = slug /\ r.is_active}
         r == resolveTemplate(tenant_templates, t, slug, v)
     IN IF v = Undefined
        THEN r = Latest(active)
        ELSE r = Latest({x \in active : x.version = v})

\* C17: in the step in which deleteTemplate succeeds for a template, default
\* resolution of that template's tenant and slug comes to return NotFound.
C17_DeleteHidesTemplate ==
  [][\A p \in AdminProcs :
       (admin[p].pc = "d_update" /\ admin'[p].pc = "done") =>
          resolveTemplate(tenant_templates', admin[p].currentTemplate.tenant_id,
                          admin[p].currentTemplate.slug, Undefined) = NoTemplate]_vars

\* the step in which the version path of updateTemplate of process p
\* commits, the template it updates being active
VersionCommit(p) ==
  /\ admin[p].pc = "u_commit"
  /\ admin'[p].pc = "done"
  /\ RowById(tenant_templates, admin[p].req.id).is_active

\* what C18 says of that step; resolves tells whether default resolution is
\* required to return the new row
VersionCreated(p, resolves) ==
  LET cur == RowById(tenant_templates, admin[p].req.id)
      new == CHOOSE r \in admin[p].rows : TRUE
  IN /\ new \in tenant_templates'
     /\ new.tenant_id = cur.tenant_id
     /\ new.slug = cur.slug
     /\ new.version = MaxVersion(tenant_templates, cur.tenant_id, cur.slug) + 1
     /\ resolveTemplate(tenant_templates', cur.tenant_id, cur.slug, cur.version) = cur
     /\ (resolves =>
           resolveTemplate(tenant_templates', cur.tenant_id, cur.slug, Undefined) = new)

\* C18 as stated: after updateTemplate has changed the content of an active
\* template there is a new row of the same tenant and slug with the previous
\* highest version plus one, the prior version is returned by a lookup
\* pinned to it, and default resolution returns the new version.
C18_NewVersionResolved ==
  [][\A p \in AdminProcs : VersionCommit(p) => VersionCreated(p, TRUE)]_vars

\* C18 amended: as above, default resolution returning the new version
\* unless the same call sets isActive to false (the new row is then written
\* inactive and default resolution stays with the rows that were active).
C18_NewVersionResolvedIfActive ==
  [][\A p \in AdminProcs :
       VersionCommit(p) => VersionCreated(p, admin[p].req.isActive # "false")]_vars

\* a content update of template 1 has returned and default resolution gives
\* version 3 of its slug
C18_Witness ==
  \E p \in AdminProcs :
     /\ admin[p].pc = "done"
     /\ admin[p].req.op = "update"
     /\ admin[p].req.id = 1
     /\ admin[p].req.content # ""
     /\ admin[p].outcome = Json
     /\ resolveTemplate(tenant_templates, 1, "welcome", Undefined).version = 3
     /\ resolveTemplate(tenant_templates, 1, "welcome", 1).id = 1

\* C19: no step changes the content, engine, subject template or plaintext
\* template of a row that exists.
C19_RowContentImmutable ==
  [][\A r \in tenant_templates :
       \E q \in tenant_templates' :
          /\ q.id = r.id
          /\ q.content = r.content
          /\ q.engine = r.engine
          /\ q.subject_template = r.subject_template
          /\ q.plaintext_template = r.plaintext_template]_vars

\* C20: no two rows of the template store have the same (tenant, slug,
\* version), and no two rows the same id.
C20_UniqueKey ==
  \A a, b \in tenant_templates :
     (SameKey(a, b) \/ a.id = b.id) => a = b

\* two concurrent calls went for the same key: one has committed its row,
\* the INSERT of the other was rejected
C20_Witness ==
  \E p, q \in AdminProcs :
     /\ p # q
     /\ admin[p].pc = "done"
     /\ admin[p].error = DbError("duplicate key value violates unique constraint")
     /\ admin[q].pc = "done"
     /\ admin[q].outcome = Json
     /\ admin[q].req.op = admin[p].req.op

(***************************************************************************)
(* Properties of the template handlers under concurrency.                  *)
(***************************************************************************)
\* process p is on the version path of updateTemplate and has read its next
\* version number
OnVersionPath(p) ==
  /\ admin[p].req.op = "update"
  /\ isVersionUpdate(admin[p].req)
  /\ admin[p].nextVersion # 0

\* two calls that edit the same (tenant, slug)
SameTemplate(p, q) ==
  /\ admin[p].currentTemplate.tenant_id = admin[q].currentTemplate.tenant_id
  /\ admin[p].currentTemplate.slug = admin[q].currentTemplate.slug

\* C21: two updateTemplate calls that edit the content of the same
\* (tenant, slug) never hold the same next version number, and when both
\* have ended both have answered with success
C21_DistinctNextVersions ==
  \A p \in AdminProcs : \A q \in AdminProcs \ {p} :
    (OnVersionPath(p) /\ OnVersionPath(q) /\ SameTemplate(p, q))
      => /\ admin[p].nextVersion # admin[q].nextVersion
         /\ (admin[p].pc = "done" /\ admin[q].pc = "done"
               => admin[p].outcome = Json /\ admin[q].outcome = Json)

\* the 409 of createTemplate
Conflict == AppError("Template slug already exists for this tenant", 409)

\* process p takes a step of createTemplate from label l
CreateStep(p, l) ==
  admin[p].req.op = "create" /\ admin[p].pc = l /\ admin'[p] # admin[p]

ActiveTemplates(rows, tenantId) ==
  {t.slug : t \in {u \in rows : u.tenant_id = tenantId /\ u.is_active}}

\* the 429 of createTemplate
QuotaError == AppError("Tenant has reached the maximum of 50 templates", 429)

\* C23: createTemplate is rejected for quota exactly when its tenant has
\* TemplateQuota active templates or more, a slug counting once whatever
\* the number of its versions, and a rejected call writes no row
C23_QuotaCountsTemplates ==
  [][\A p \in AdminProcs :
       /\ CreateStep(p, "c_count")
            => (admin'[p].error = QuotaError)
                 <=> (Cardinality(ActiveTemplates(tenant_templates,
                                                  admin[p].req.tenantId))
                        >= TemplateQuota)
       /\ (admin[p].error = QuotaError /\ admin'[p] # admin[p])
            => tenant_templates' = tenant_templates]_vars

\* C24: no tenant ever has more than TemplateQuota active templates
C24_QuotaInvariant ==
  \A id \in TenantIds :
    Cardinality(ActiveTemplates(tenant_templates, id)) <= TemplateQuota

(***************************************************************************)
(* Properties of the render cache.                                         *)
(***************************************************************************)
\* C25: a render of the record and data of the render before it, which
\* returned a result, with no invalidation and no expiry of its entry in
\* between, returns the same result from the cache and runs no compile step
C25_SecondRenderIsCacheHit ==
  lastRender.repeat
    => lastRender.same /\ lastRender.hit /\ lastRender.steps = <<>>

\* C25 witness: a render was repeated some time after the entry was written
C25_Witness ==
  lastRender.repeat /\ lastRender.result.ok /\ now > 0

\* C26: data with another serialization than the data last rendered has
\* another hash, and so another cache key for the same record
C26_HashInjective ==
  \A data \in RenderData :
    (lastRender.record # NoTemplate /\ data # lastRender.data)
      => /\ generateDataHash(data) # generateDataHash(lastRender.data)
         /\ RenderKeys[lastRender.record, data]
              # RenderKeys[lastRender.record, lastRender.data]

\* the cache keys of the renders of a template id
KeysOfId(id) ==
  {RenderKeys[r, d] : r \in {x \in RenderRecords : x.id = id}, d \in RenderData}

\* C27: invalidateTemplateCache(id) deletes the entries of the renders of
\* that id, all of them, and leaves every other entry as it was
C27_InvalidatesOneTemplate ==
  [][(invalidated' /\ now' = now /\ lastRender' = lastRender)
       => \A id \in RenderIds :
            cache' = invalidateTemplateCache(cache, id)
              => /\ DOMAIN cache' = DOMAIN cache \ KeysOfId(id)
                 /\ \A k \in DOMAIN cache' : cache'[k] = cache[k]]_vars

\* C27 witness: the entry of the last render, of id 1, is gone after an
\* invalidation, before any entry could expire, and an entry of id 12 is
\* still there
C27_Witness ==
  /\ invalidated /\ now = 0
  /\ lastRender.record.id = 1 /\ lastRender.result.ok
  /\ DOMAIN cache \cap KeysOfId(1) = {}
  /\ DOMAIN cache \cap KeysOfId(12) # {}

\* C29: a render answered from the cache returns an entry no older than
\* the TTL, and a render that finds an older entry compiles again, swept or
\* not
C29_NoExpiredEntryReturned ==
  /\ lastRender.hit => lastRender.found /\ ~lastRender.stale
  /\ lastRender.stale
       => /\ ~lastRender.hit
          /\ lastRender.steps = CompileSteps(lastRender.record)
          /\ lastRender.result = RenderUncached(lastRender.record, lastRender.data)

\* C29 witness: a render found an entry that had outlived the TTL and had
\* not been swept, and rendered again
C29_Witness ==
  /\ lastRender.stale /\ ~lastRender.hit /\ lastRender.result.ok
  /\ lastRender.steps # <<>>

\* C30: a render of a record whose subject or body is malformed fails,
\* returns nothing, and leaves the entries of the cache as they were
C30_MalformedRenderFails ==
  [][\A record \in RenderRecords, data \in RenderData :
       (/\ RenderCall(record, data)
        /\ (record.subject_template \in Malformed \/ record.content \in Malformed))
         => /\ ~lastRender'.result.ok
            /\ lastRender'.result.subject = <<>>
            /\ lastRender'.result.html = <<>>
            /\ lastRender'.result.text = <<>>
            /\ CacheCheck(cache', now) = CacheCheck(cache, now)]_vars

\* the cache keys of the renders of the row with the given id
CacheKeysOf(rows, id) ==
  {CacheKeyOf(t, b.templateData) : t \in {u \in rows : u.id = id}, b \in TemplateBodies}

\* process p returns with success from a call that changes the content of a
\* template or deactivates it
ChangeReturns(p) ==
  /\ admin[p].pc # "done" /\ admin'[p].pc = "done"
  /\ admin'[p].outcome = Json
  /\ \/ admin[p].req.op = "delete"
     \/ /\ admin[p].req.op = "update"
        /\ isVersionUpdate(admin[p].req) \/ admin[p].req.isActive = "false"

\* C28: when a call that changes the content of a template or deactivates
\* it returns, the cache has no entry of that template id
C28_NoEntryAfterChange ==
  [][\A p \in AdminProcs :
       ChangeReturns(p)
         => DOMAIN cache' \cap CacheKeysOf(tenant_templates', admin[p].req.id) = {}]_vars

\* C31: a render of a record whose subject and body are well formed and
\* whose plaintext template is absent or fails to expand returns a result,
\* and its text is derived from its html
C31_PlainTextFallback ==
  (/\ lastRender.record # NoTemplate
   /\ lastRender.record.subject_template \notin Malformed
   /\ lastRender.record.content \notin Malformed
   /\ lastRender.record.plaintext_template \in Malformed \cup {""})
    => /\ lastRender.result.ok
       /\ lastRender.result.text = <<"htmlToText", lastRender.result.html>>

(***************************************************************************)
(* Properties of concurrent dispatches and of the clients of the pool.     *)
(***************************************************************************)
\* C32: while a dispatch sleeps in backoff, a dispatch that awaits
\* pool.connect() can be given its client
C32_BackoffBlocksNoDispatch ==
  \A d \in Dispatchers :
    (/\ dispatches[d].pc = "connect"
     /\ \E e \in Dispatchers \ {d} : dispatches[e].pc = "sleep")
      => pool < PoolMax


(***************************************************************************)
(* Properties of the order of the steps of one dispatch.                   *)
(***************************************************************************)
\* C33: a dispatch that has called the transport has inserted its log row
\* with status 'sending' first, and a dispatch that failed before that
\* insert has made no transport call
C33_SendingRowBeforeTransport ==
  /\ calls > 0 => /\ logId # 0
                  /\ statusLog # <<>>
                  /\ statusLog[1] = "sending"
  /\ logId = 0 => calls = 0

\* the transport is being called for the first time, the row is inserted
C33_Witness ==
  /\ pc = "sendMail"
  /\ calls = 1
  /\ logId # 0
  /\ statusLog = <<"sending">>

\* C34: the log row of a dispatch has status 'sent' only if a transport
\* call of that dispatch has returned successfully, for every value of
\* RETRY_MAX_ATTEMPTS
C34_SentOnlyAfterTransportSuccess ==
  \A table \in {txn.rows, email_logs} :
    (logId \in DOMAIN table /\ table[logId].status = "sent") => info # NoInfo

\* C35: when a webhook event is emitted, the log store holds the row its
\* emailLogId names and the status of that row is the type of the event
C35_WebhookMatchesRow ==
  [][Len(webhooks') > Len(webhooks) =>
       LET w == webhooks'[Len(webhooks')]
       IN /\ w.emailLogId \in DOMAIN email_logs'
          /\ email_logs'[w.emailLogId].status = w.event]_vars

\* C36: a sendEmail call that has ended has given the caller one outcome,
\* the success response (res.json) or an error (next(error)), and not none
C36_ExactlyOneOutcome == Done => outcome.kind \in {"json", "next"}

\* the calls that hold a client: between the return of pool.connect() and
\* the end of the call
ClientsHeld ==
  (IF pc \in {"idle", "connect", "done"} THEN 0 ELSE 1)
  + Cardinality({p \in DOMAIN admin :
                   /\ admin[p].req.op \in {"create", "update"}
                   /\ admin[p].pc \notin {"idle", "c_connect", "u_connect", "done"}})

\* C37: the clients out of the pool are those of the sendEmail,
\* createTemplate and updateTemplate calls in progress: a call that has
\* ended, by its response or by any error, has released its client once
C37_ClientReleasedOnce == pool = ClientsHeld

\* a sendEmail call and a createTemplate call have both ended, the second
\* rejected by validation, and no client is out of the pool
C37_Witness ==
  /\ pc = "done"
  /\ outcome.kind = "next"
  /\ \E p \in DOMAIN admin :
       /\ admin[p].pc = "done"
       /\ admin[p].outcome = Failed(AppError("Missing required fields", 400))
  /\ pool = 0


(***************************************************************************)
(* Properties of the renderer next to the template handlers.               *)
(***************************************************************************)
\* C38: a render of a stored row returns the subject, html and text that
\* an uncached render of that row with that data returns
C38_CacheTransparent ==
  lastRender.record # NoTemplate
    => lastRender.result = RenderUncached(lastRender.record, lastRender.data)

\* the versions of the rows of a tenant and slug
VersionsOf(rows, tenantId, slug) ==
  {t.version : t \in {u \in rows : u.tenant_id = tenantId /\ u.slug = slug}}

\* the rows of every (tenant, slug) have the versions 1..n, one row each
DenseVersions(rows) ==
  \A t \in rows :
    LET same == {u \in rows : u.tenant_id = t.tenant_id /\ u.slug = t.slug}
    IN /\ VersionsOf(rows, t.tenant_id, t.slug) = 1..Cardinality(same)
       /\ \A u \in same : u.version = t.version => u.id = t.id

\* C39: after every step of createTemplate, updateTemplate and
\* deleteTemplate the versions of the rows of every (tenant, slug) are
\* exactly 1..n with no gap and no repeat, and every row that was stored
\* is still stored
C39_VersionsDenseNoRowRemoved ==
  [][/\ DenseVersions(tenant_templates')
     /\ \A t \in tenant_templates : \E u \in tenant_templates' : u.id = t.id]_vars

\* a template has three versions after an update and one of its rows was
\* soft-deleted
C39_Witness ==
  /\ VersionsOf(tenant_templates, 1, "welcome") = 1..3
  /\ \E t \in tenant_templates : t.id = 2 /\ ~t.is_active
  /\ \E p \in AdminProcs : admin[p].pc = "done" /\ admin[p].req.op = "delete"


(***************************************************************************)
(* Properties of listTemplates.                                            *)
(***************************************************************************)
\* C40: the response of listTemplates has pagination.total equal to the
\* number of templates it lists over all pages, one per slug, and
\* pagination.pages equal to the number of pages that takes
C40_TotalCountsListedTemplates ==
  listing.pc = "done"
    => /\ listing.total = listing.listed
       /\ listing.pages = Ceil(listing.listed, listing.limit)

====
